---- MODULE Spec2Model ----
(***************************************************************************)
(* A model of genlog's generation pipeline: the Generator of               *)
(* pkg/generator (NewGenerator, Start, Stop, Done, GenerateLogLine) and    *)
(* the Worker and Output of pkg/output.                                    *)
(*                                                                         *)
(* A line is the pair <<g, k>>: the k-th line GenerateLogLine returned to  *)
(* goroutine g.  Go slices are 0-based, the sequences here 1-based.        *)
(***************************************************************************)
EXTENDS Integers, Sequences, FiniteSets, TLC

\* ------------------------------------------------------------------ bounds
\* largest targetCount (maxCount) handed to NewGenerator, under Spec and SpecApi
MaxTarget == 1
\* largest targetCount handed to NewGenerator, under FairSpec
MaxFairTarget == 2
\* largest number of workers over all outputs of a configuration, and of
\* goroutines running Worker.Start over all calls of Start()
MaxWorkers == 2
\* lines after which a worker without a limit generates no more
MaxGen == 1
\* largest batchSize handed to NewWorker directly
MaxBatch == 2
\* largest maxCount handed to NewWorker directly
MaxLimit == 3
\* calls of Start() and Stop() together, under SpecApi
MaxCalls == 2
\* largest targetCount and largest Workers of an output, under SpecNew
MaxInitTarget == 7
MaxInitWorkers == 4
\* largest BatchSize of an output, under SpecNew
MaxInitBatch == 2
\* most templates of a configuration and largest weight of one, under SpecLine
MaxTemplates == 3
MaxWeight == 2
\* most Generators made from one configuration, and most calls of
\* GenerateLogLine on one of them, under SpecLine
MaxGens == 2
MaxLines == 2
\* callers of one Output at a time, lines of a batch handed to Write, and
\* bytes the bufio.Writer of a file output holds (4096 in bufio), under
\* SpecSink
MaxCallers == 2
MaxBatchLines == 2
MaxBuffer == 2
\* outputs of a configuration handed to Validate
MaxOutputs == 2
\* strings in the list of a custom type
MaxValues == 2

\* --------------------------------------------------------------- constants
\* the batch size initializeOutputs hands to every worker
HardBatchSize == 100
\* the most bytes udpOutput.Write sends in one datagram
MaxUDPPayload == 1472

VARIABLES
    maxCount,      \* Generator.maxCount
    outputs,       \* Generator.config.Outputs: <<[Type, Workers, BatchSize, Config], ...>>
    templates,     \* Generator.config.Templates: <<[Weight, renders], ...>>
    workers,       \* Generator.workers: <<[maxCount, batchSize, output, id, kind,
                   \* filename], ...>>, kind and filename being those of its Output
    ctor,          \* NewGenerator: its position in initializeOutputs and its result
    stopClosed,    \* stopChan has been closed
    doneClosed,    \* doneChan has been closed
    wg,            \* the counter of Generator.wg
    gor,           \* the goroutines running Worker.Start, with its locals
    watchers,      \* the completion goroutines of Generator.Start
    calls,         \* the calls of Start() and Stop(), with their position
    sink,          \* per worker: the lines its Output has received
    closed,        \* per worker: its Output has been closed
    panic,         \* "" or the runtime panic that ended the process
    writeErrSeen,  \* history: some Write has returned an error
    genErrSeen,    \* history: some GenerateLogLine has returned an error
    seed,          \* Config.Seed
    faker,         \* the global random source of gofakeit: the seed it was given
                   \* last and the number of values drawn since
    tapes,         \* per seed, the values the random source yields, as far as drawn
    gens,          \* the Generators made from the config by callers of
                   \* GenerateLogLine; history: out, the results of their calls
    sinkKind,      \* one Output used by callers of its own: "file" or "udp"
    made,          \* NewOutput has returned it
    mu,            \* its mutex: 0, or the caller that holds it
    ops,           \* the calls of its Write and Close, with their position;
                   \* history: before and kept, what it had received and
                   \* what its bufio.Writer held when the call took the mutex
    disk,          \* the bytes of the file
    buf,           \* the bytes its bufio.Writer holds
    werr,          \* the bufio.Writer has kept an error
    released,      \* the file or the connection has been closed
    sent,          \* the datagrams written to the connection
    val,           \* a call of Config.Validate: its position, its loop variable
                   \* output and its result
    glog,          \* a call of GenerateLogs(outputFile, count): its position,
                   \* its count and i, whether outputFile exists, its result;
                   \* history: lines, the lines written, and failed, a file
                   \* operation has returned an error
    custom         \* a custom type of the configuration: values, its list;
                   \* history: out, the results of the calls of its function

linevars == <<seed, faker, tapes, gens>>

sinkvars == <<sinkKind, made, mu, ops, disk, buf, werr, released, sent>>

\* the variables of the calls made on a configuration alone
extra == <<val, glog, custom>>

\* the variables of the generators used for their lines only, of the Output
\* used on its own and of the calls made on a configuration alone
apart == <<linevars, sinkvars, extra>>

lifecycle == <<stopClosed, doneClosed, wg, gor, watchers, calls, sink, closed,
               writeErrSeen, genErrSeen>>

vars == <<maxCount, outputs, templates, workers, ctor, stopClosed, doneClosed, wg,
          gor, watchers, calls, sink, closed, panic, writeErrSeen, genErrSeen,
          seed, faker, tapes, gens,
          sinkKind, made, mu, ops, disk, buf, werr, released, sent,
          val, glog, custom>>

config == <<maxCount, outputs, templates, workers, ctor>>

\* ---------------------------------------------------------- configuration

RECURSIVE SumWorkers(_)
SumWorkers(outs) ==
    IF outs = <<>> THEN 0 ELSE outs[1].Workers + SumWorkers(Tail(outs))

\* a file name: filepath.Ext(name) is ext, and base is what precedes it, a
\* sequence of parts <<text, number>>
FileName(base, ext) == [base |-> base, ext |-> ext]

NoName == FileName(<<>>, "")

\* the name out<n>.log
OutLog(n) == FileName(<<<<"out", n>>>>, ".log")

\* OutputConfig.Config with "filename": name, and without
WithFilename(name) == [hasFilename |-> TRUE, filename |-> name, hasAddress |-> FALSE]

WithAddress == [hasFilename |-> FALSE, filename |-> NoName, hasAddress |-> TRUE]

Nothing == [hasFilename |-> FALSE, filename |-> NoName, hasAddress |-> FALSE]

\* a file output writing out<n>.log
FileOutputConfig(n, w, b) ==
    [Type |-> "file", Workers |-> w, BatchSize |-> b, Config |-> WithFilename(OutLog(n))]

RECURSIVE OutputConfigsOfLen(_)
OutputConfigsOfLen(n) ==
    IF n = 0 THEN {<<>>}
    ELSE {Append(o, FileOutputConfig(n, w, 0)) :
             o \in OutputConfigsOfLen(n - 1), w \in 1..MaxWorkers}

\* the configurations NewGenerator accepts: at least one output, every output
\* with at least one worker.  BatchSize is left unset (0): nothing reads it.
OutputConfigs ==
    {o \in UNION {OutputConfigsOfLen(n) : n \in 1..MaxWorkers} : SumWorkers(o) <= MaxWorkers}

\* template lists: one that always renders, and one with a template that
\* names an unknown placeholder
TemplateConfigs ==
    { <<[Weight |-> 1, renders |-> TRUE]>>,
      <<[Weight |-> 2, renders |-> TRUE], [Weight |-> 1, renders |-> FALSE]>> }

\* ------------------------------------------------------------ NewGenerator

MaxCountPerWorkerTruncated(mc, W) ==
    IF mc > 0 THEN mc \div W ELSE 0

MaxCountPerWorker(mc, W) ==
    IF mc > 0
    THEN (mc \div W) + (IF mc % W # 0 THEN 1 ELSE 0)
    ELSE 0

\* the part "_worker<i>" of a file name
WorkerSuffix(workerID) == <<"_worker", workerID>>

WorkerNameUnsuffixed(cfg, workerID) == cfg.Config.filename

\* the file newFileOutput creates for worker workerID of the output
WorkerName(cfg, workerID) ==
    IF cfg.Workers > 1
    THEN FileName(Append(cfg.Config.filename.base, WorkerSuffix(workerID)),
                  cfg.Config.filename.ext)
    ELSE cfg.Config.filename

Failed == [err |-> TRUE, kind |-> "", filename |-> NoName]

\* newFileOutput: no file without a filename; os.Create may fail
newFileOutput(cfg, workerID) ==
    IF ~cfg.Config.hasFilename THEN {Failed}
    ELSE {[err |-> FALSE, kind |-> "file", filename |-> WorkerName(cfg, workerID)], Failed}

\* newUDPOutput: no connection without an address; resolving, dialing and
\* setting the buffer may fail
newUDPOutput(cfg) ==
    IF ~cfg.Config.hasAddress THEN {Failed}
    ELSE {[err |-> FALSE, kind |-> "udp", filename |-> NoName], Failed}

\* the results of NewOutput(cfg, workerID)
NewOutput(cfg, workerID) ==
    CASE cfg.Type = "file" -> newFileOutput(cfg, workerID)
      [] cfg.Type = "udp" -> newUDPOutput(cfg)
      [] OTHER -> {Failed}

\* the Output NewOutput returns when nothing fails
OutputMade(cfg, workerID) ==
    CHOOSE res \in NewOutput(cfg, workerID) : ~res.err

WorkersOfOutputSharingTarget(outs, o, mc) ==
    [i \in 1..outs[o].Workers |->
        [maxCount  |-> MaxCountPerWorker(mc, SumWorkers(outs)),
         batchSize |-> HardBatchSize,
         output    |-> o,
         id        |-> i - 1,
         kind      |-> OutputMade(outs[o], i - 1).kind,
         filename  |-> OutputMade(outs[o], i - 1).filename]]

WorkersOfOutput(outs, o, mc) ==
    [i \in 1..outs[o].Workers |->
        [maxCount  |-> MaxCountPerWorker(mc, outs[o].Workers),
         batchSize |-> HardBatchSize,
         output    |-> o,
         id        |-> i - 1,
         kind      |-> OutputMade(outs[o], i - 1).kind,
         filename  |-> OutputMade(outs[o], i - 1).filename]]

RECURSIVE InitializeOutputsFrom(_, _, _)
InitializeOutputsFrom(outs, o, mc) ==
    IF o > Len(outs) THEN <<>>
    ELSE WorkersOfOutput(outs, o, mc) \o InitializeOutputsFrom(outs, o + 1, mc)

initializeOutputs(outs, mc) == InitializeOutputsFrom(outs, 1, mc)

\* the local variables of NewGenerator once it has returned g
Constructed(outs) ==
    [pc |-> "ret", o |-> Len(outs) + 1, i |-> 0, per |-> 0, err |-> FALSE]

\* the loop over g.config.Outputs: the max count per worker of output ctor.o
NewGeneratorOutput ==
    /\ panic = ""
    /\ ctor.pc = "output"
    /\ ctor.o <= Len(outputs)
    /\ IF maxCount > 0 /\ outputs[ctor.o].Workers = 0
       THEN /\ panic' = "integer divide by zero"
            /\ UNCHANGED ctor
       ELSE /\ ctor' = [ctor EXCEPT !.pc = "slot", !.i = 0,
                                    !.per = MaxCountPerWorker(maxCount, outputs[ctor.o].Workers)]
            /\ UNCHANGED panic
    /\ UNCHANGED <<apart, maxCount, outputs, templates, workers, stopClosed, doneClosed,
                   wg, gor, watchers, calls, sink, closed, writeErrSeen, genErrSeen>>

\* one turn of the loop over the workers of the output: NewOutput, which may
\* fail, then NewWorker and append
NewGeneratorSlotIgnoresError ==
    /\ panic = ""
    /\ ctor.pc = "slot"
    /\ ctor.i < outputs[ctor.o].Workers
    /\ \E res \in NewOutput(outputs[ctor.o], ctor.i) :
          IF ~res.err
          THEN /\ workers' = Append(workers,
                                   [maxCount  |-> ctor.per,
                                    batchSize |-> HardBatchSize,
                                    output    |-> ctor.o,
                                    id        |-> ctor.i,
                                    kind      |-> res.kind,
                                    filename  |-> res.filename])
               /\ sink' = Append(sink, <<>>)
               /\ closed' = Append(closed, FALSE)
               /\ ctor' = [ctor EXCEPT !.i = ctor.i + 1]
          ELSE /\ ctor' = [ctor EXCEPT !.i = ctor.i + 1]
               /\ UNCHANGED <<workers, sink, closed>>
    /\ UNCHANGED <<apart, maxCount, outputs, templates, stopClosed, doneClosed, wg, gor,
                   watchers, calls, panic, writeErrSeen, genErrSeen>>

NewGeneratorSlot ==
    /\ panic = ""
    /\ ctor.pc = "slot"
    /\ ctor.i < outputs[ctor.o].Workers
    /\ \E res \in NewOutput(outputs[ctor.o], ctor.i) :
          IF ~res.err
          THEN /\ workers' = Append(workers,
                                   [maxCount  |-> ctor.per,
                                    batchSize |-> HardBatchSize,
                                    output    |-> ctor.o,
                                    id        |-> ctor.i,
                                    kind      |-> res.kind,
                                    filename  |-> res.filename])
               /\ sink' = Append(sink, <<>>)
               /\ closed' = Append(closed, FALSE)
               /\ ctor' = [ctor EXCEPT !.i = ctor.i + 1]
          ELSE /\ ctor' = [ctor EXCEPT !.pc = "ret", !.err = TRUE]
               /\ UNCHANGED <<workers, sink, closed>>
    /\ UNCHANGED <<apart, maxCount, outputs, templates, stopClosed, doneClosed, wg, gor,
                   watchers, calls, panic, writeErrSeen, genErrSeen>>

\* the workers of the output are made: the next output
NewGeneratorNextOutput ==
    /\ panic = ""
    /\ ctor.pc = "slot"
    /\ ctor.i >= outputs[ctor.o].Workers
    /\ ctor' = [ctor EXCEPT !.pc = "output", !.o = ctor.o + 1, !.i = 0, !.per = 0]
    /\ UNCHANGED <<apart, maxCount, outputs, templates, workers, stopClosed, doneClosed,
                   wg, gor, watchers, calls, sink, closed, panic, writeErrSeen,
                   genErrSeen>>

\* return g, nil
NewGeneratorReturn ==
    /\ panic = ""
    /\ ctor.pc = "output"
    /\ ctor.o > Len(outputs)
    /\ ctor' = Constructed(outputs)
    /\ UNCHANGED <<apart, maxCount, outputs, templates, workers, stopClosed, doneClosed,
                   wg, gor, watchers, calls, sink, closed, panic, writeErrSeen,
                   genErrSeen>>

RECURSIVE TotalWeight(_)
TotalWeight(tpls) ==
    IF tpls = <<>> THEN 0 ELSE tpls[1].Weight + TotalWeight(Tail(tpls))

\* --------------------------------------------------------- GenerateLogLine

RECURSIVE WalkTemplatesInclusive(_, _, _, _)
WalkTemplatesInclusive(tpls, i, sum, r) ==
    IF i > Len(tpls) THEN 1
    ELSE IF r <= sum + tpls[i].Weight THEN i
    ELSE WalkTemplatesInclusive(tpls, i + 1, sum + tpls[i].Weight, r)

\* the loop of selectWeightedTemplate from template i on, sum being the
\* weights before it
RECURSIVE WalkTemplates(_, _, _, _)
WalkTemplates(tpls, i, sum, r) ==
    IF i > Len(tpls) THEN 1
    ELSE IF r < sum + tpls[i].Weight THEN i
    ELSE WalkTemplates(tpls, i + 1, sum + tpls[i].Weight, r)

\* the index selectWeightedTemplate returns when gofakeit.IntRange draws r
selectWeightedTemplate(tpls, r) ==
    IF TotalWeight(tpls) <= 0 \/ Len(tpls) = 0 THEN 1
    ELSE WalkTemplates(tpls, 1, 0, r)

Draws(tpls) ==
    IF TotalWeight(tpls) <= 0 THEN {0} ELSE 0..(TotalWeight(tpls) - 1)

\* the results of one call: TRUE for a line, FALSE for an error
GenerateLogLine ==
    IF Len(templates) = 0 THEN {FALSE}
    ELSE {templates[selectWeightedTemplate(templates, r)].renders : r \in Draws(templates)}

\* the seeds of the random source: the one gofakeit picks for itself, and
\* the one of a configuration with Seed: 42
Seeds == {0, 42}

\* gofakeit's global source before any Seed call
InitFaker ==
    /\ faker = [seed |-> 0, n |-> 0]
    /\ tapes = [s \in Seeds |-> <<>>]

\* NewGenerator as far as GenerateLogLine depends on it: gofakeit.Seed(cfg.Seed)
\* when the seed is not 0, and the total weight
NewGeneratorSeed ==
    /\ panic = ""
    /\ faker' = IF seed # 0 THEN [seed |-> seed, n |-> 0] ELSE faker
    /\ gens' = Append(gens, [totalWeight |-> TotalWeight(templates), out |-> <<>>])
    /\ UNCHANGED <<config, lifecycle, sinkvars, extra, panic, seed, tapes>>

NoTemplatesNever == FALSE

\* len(g.config.Templates) == 0
NoTemplates == Len(templates) = 0

\* the values gofakeit.IntRange(0, W - 1) may return at this point of the
\* source: the one it returned at this point after the same seed, if any
IntRange(W) ==
    IF faker.n < Len(tapes[faker.seed])
    THEN {tapes[faker.seed][faker.n + 1]}
    ELSE 0..(W - 1)

\* the random source after it has returned r
Drawn(r) ==
    /\ faker' = [faker EXCEPT !.n = faker.n + 1]
    /\ tapes' = IF faker.n < Len(tapes[faker.seed])
                THEN tapes
                ELSE [tapes EXCEPT ![faker.seed] = Append(tapes[faker.seed], r)]

\* the result of a call once the template is selected: gofakeit.Template
\* renders it, or the index is outside the list
Rendered(i, idx, r) ==
    IF idx \notin DOMAIN templates
    THEN /\ panic' = "index out of range"
         /\ UNCHANGED gens
    ELSE /\ gens' = [gens EXCEPT ![i].out =
                        Append(gens[i].out,
                               [err  |-> ~templates[idx].renders,
                                line |-> IF templates[idx].renders THEN <<idx>> ELSE <<>>,
                                r    |-> r,
                                idx  |-> idx])]
         /\ UNCHANGED panic

\* one call of GenerateLogLine on generator i
GenerateLogLineCall(i) ==
    /\ panic = ""
    /\ i \in DOMAIN gens
    /\ Len(gens[i].out) < MaxLines
    /\ IF NoTemplates
       THEN /\ gens' = [gens EXCEPT ![i].out =
                           Append(gens[i].out,
                                  [err |-> TRUE, line |-> <<>>, r |-> -1, idx |-> 0])]
            /\ UNCHANGED <<panic, faker, tapes>>
       ELSE IF gens[i].totalWeight <= 0 \/ Len(templates) = 0
            THEN /\ Rendered(i, 1, -1)
                 /\ UNCHANGED <<faker, tapes>>
            ELSE \E r \in IntRange(gens[i].totalWeight) :
                    /\ Drawn(r)
                    /\ Rendered(i, WalkTemplates(templates, 1, 0, r), r)
    /\ UNCHANGED <<config, lifecycle, sinkvars, extra, seed>>

\* ------------------------------------------------------------------ Output

\* Write(batch) on an Output holding `content`: the new content and whether an
\* error is returned.  A failing Write has delivered a proper prefix of the batch.
WriteResults(content, batch, isClosed) ==
    IF isClosed THEN {[content |-> content, err |-> TRUE]}
    ELSE {[content |-> content \o batch, err |-> FALSE]}
         \cup {[content |-> content \o SubSeq(batch, 1, n), err |-> TRUE] :
                  n \in 0..(Len(batch) - 1)}

\* Close(): whether the Output is closed afterwards and whether an error is returned
CloseResults(isClosed) ==
    IF isClosed THEN {[closed |-> TRUE, err |-> TRUE]}
    ELSE {[closed |-> TRUE, err |-> FALSE],
          [closed |-> TRUE, err |-> TRUE],
          [closed |-> FALSE, err |-> TRUE]}

\* ---------------------------------------------------------- Config.Validate

NoOutput == [Type |-> "", Workers |-> 0, BatchSize |-> 0, Config |-> Nothing]

\* Validate has not been called
NoValidate == val = [pc |-> "idle", i |-> 0, output |-> NoOutput, err |-> FALSE]

\* GenerateLogs has not been called
NoLogs ==
    glog = [pc |-> "idle", i |-> 0, count |-> 0, exists |-> FALSE, err |-> FALSE,
            lines |-> <<>>, failed |-> FALSE]

\* the configuration has no custom type
NoCustom == custom = [values |-> <<>>, out |-> <<>>]

\* no call is made on a configuration alone
NoExtra == NoValidate /\ NoLogs /\ NoCustom

\* c.Validate()
ValidateCall ==
    /\ val.pc = "idle"
    /\ val' = [val EXCEPT !.pc = "check"]
    /\ UNCHANGED <<config, lifecycle, linevars, sinkvars, panic, glog, custom>>

\* if len(c.Templates) == 0 {...}; if len(c.Outputs) == 0 {...}
ValidateCheck ==
    /\ val.pc = "check"
    /\ val' = IF Len(templates) = 0 \/ Len(outputs) = 0
              THEN [val EXCEPT !.pc = "ret", !.err = TRUE]
              ELSE [val EXCEPT !.pc = "loop", !.i = 1]
    /\ UNCHANGED <<config, lifecycle, linevars, sinkvars, panic, glog, custom>>

\* the loop variable after the defaults: output is a copy of c.Outputs[i]
Defaulted(output) ==
    [output EXCEPT !.BatchSize = IF output.BatchSize = 0 THEN 100 ELSE output.BatchSize,
                   !.Workers = IF output.Workers = 0 THEN 1 ELSE output.Workers]

\* the switch on output.Type
TypeError(output) ==
    CASE output.Type = "file" -> ~output.Config.hasFilename
      [] output.Type = "udp" -> ~output.Config.hasAddress
      [] OTHER -> TRUE

\* one turn of for _, output := range c.Outputs
ValidateOutput ==
    /\ val.pc = "loop"
    /\ val.i <= Len(outputs)
    /\ LET output == Defaulted(outputs[val.i])
       IN  val' = IF TypeError(output)
                  THEN [val EXCEPT !.pc = "ret", !.output = output, !.err = TRUE]
                  ELSE [val EXCEPT !.i = val.i + 1, !.output = output]
    /\ UNCHANGED <<config, lifecycle, linevars, sinkvars, panic, glog, custom>>

\* return nil
ValidateReturn ==
    /\ val.pc = "loop"
    /\ val.i > Len(outputs)
    /\ val' = [val EXCEPT !.pc = "ret"]
    /\ UNCHANGED <<config, lifecycle, linevars, sinkvars, panic, glog, custom>>

\* the lengths of the lines handed to the Output: for a file, a line that
\* with its newline fills the buffer and one that does not fit; for a
\* connection, the longest line sent whole and the shortest one cut
LineLens(kind) ==
    IF kind = "file" THEN {MaxBuffer - 1, MaxBuffer}
    ELSE {MaxUDPPayload - 1, MaxUDPPayload}

\* ------------------------------------------- fileOutput and udpOutput

\* no Output is used on its own
NoSink ==
    /\ sinkKind = "file"
    /\ made = FALSE
    /\ mu = 0
    /\ ops = <<>>
    /\ disk = <<>>
    /\ buf = <<>>
    /\ werr = FALSE
    /\ released = FALSE
    /\ sent = <<>>

\* a message is [id, len]: the line id of len bytes; its bytes are
\* <<id[1], id[2], j>>, and the newline is the same byte in every line
NL == <<0, 0, 0>>

Old == <<0, 0, 1>>

Bytes(msg) == [j \in 1..msg.len |-> <<msg.id[1], msg.id[2], j>>]

\* msg + "\n"
WithNewline(msg) == Append(Bytes(msg), NL)

\* os.File.Write(p) on a file holding d: all of p, or an error after a part
\* of it, or an error when the file is closed
FileWrite(d, p) ==
    IF released THEN {[disk |-> d, n |-> 0, err |-> TRUE]}
    ELSE {[disk |-> d \o p, n |-> Len(p), err |-> FALSE]}
         \cup {[disk |-> d \o SubSeq(p, 1, n), n |-> n, err |-> TRUE] :
                  n \in 0..(Len(p) - 1)}

\* the file and its bufio.Writer
Writer == [disk |-> disk, buf |-> buf, werr |-> werr, err |-> FALSE]

\* o.writer.Flush(): the error kept, or the buffer written to the file, an
\* error being kept with what was not written
Flush(st) ==
    IF st.werr THEN {[st EXCEPT !.err = TRUE]}
    ELSE IF st.buf = <<>> THEN {[st EXCEPT !.err = FALSE]}
    ELSE {[disk |-> w.disk,
           buf  |-> SubSeq(st.buf, w.n + 1, Len(st.buf)),
           werr |-> w.err,
           err  |-> w.err] : w \in FileWrite(st.disk, st.buf)}

\* o.writer.WriteString(s): fills and flushes the buffer while s does not
\* fit, then keeps the rest
RECURSIVE WriteString(_, _)
WriteString(st, s) ==
    IF st.werr THEN {[st EXCEPT !.err = TRUE]}
    ELSE IF Len(s) > MaxBuffer - Len(st.buf)
    THEN LET n == MaxBuffer - Len(st.buf)
         IN  UNION {WriteString(f, SubSeq(s, n + 1, Len(s))) :
                       f \in Flush([st EXCEPT !.buf = st.buf \o SubSeq(s, 1, n)])}
    ELSE {[st EXCEPT !.buf = st.buf \o s, !.err = FALSE]}

DatagramUntruncated(msg) == [id |-> msg.id, n |-> msg.len + 1]

\* the datagram of a message: the first n bytes of msg + "\n"
Datagram(msg) ==
    [id |-> msg.id,
     n  |-> IF msg.len + 1 > MaxUDPPayload THEN MaxUDPPayload ELSE msg.len + 1]

Op(c, op, pc) ==
    /\ made
    /\ c \in DOMAIN ops
    /\ ops[c].op = op
    /\ ops[c].pc = pc

\* what the Output has received
Received0 == IF sinkKind = "file" THEN disk ELSE sent

\* return err: the deferred Unlock is next
Return(c, err) ==
    [ops EXCEPT ![c].pc = "unlock", ![c].ret = IF err THEN "err" ELSE "nil"]

\* NewOutput: os.Create truncates the file
SinkCreate ==
    /\ ~made
    /\ made' = TRUE
    /\ disk' = <<>>
    /\ UNCHANGED <<config, lifecycle, linevars, extra, panic, sinkKind, mu, ops, buf, werr,
                   released, sent>>

\* udpOutput.Write of no messages: if len(messages) == 0 { return nil }
Empty(c) == sinkKind = "udp" /\ ops[c].op = "Write" /\ Len(ops[c].batch) = 0

UDPWriteEmpty(c) ==
    /\ made
    /\ c \in DOMAIN ops
    /\ ops[c].pc = "lock"
    /\ Empty(c)
    /\ ops' = [ops EXCEPT ![c].pc = "ret", ![c].ret = "nil"]
    /\ UNCHANGED <<config, lifecycle, linevars, extra, panic, sinkKind, made, mu, disk, buf,
                   werr, released, sent>>

LockSkipped(c) ==
    /\ made
    /\ c \in DOMAIN ops
    /\ ops[c].pc = "lock"
    /\ ~Empty(c)
    /\ ops' = [ops EXCEPT ![c].pc = "body", ![c].before = Received0, ![c].kept = buf]
    /\ UNCHANGED <<config, lifecycle, linevars, extra, panic, sinkKind, made, mu, disk, buf,
                   werr, released, sent>>

\* o.mu.Lock()
Lock(c) ==
    /\ made
    /\ c \in DOMAIN ops
    /\ ops[c].pc = "lock"
    /\ ~Empty(c)
    /\ mu = 0
    /\ mu' = c
    /\ ops' = [ops EXCEPT ![c].pc = "body", ![c].before = Received0, ![c].kept = buf]
    /\ UNCHANGED <<config, lifecycle, linevars, extra, panic, sinkKind, made, disk, buf,
                   werr, released, sent>>

\* defer o.mu.Unlock(), at the return
Unlock(c) ==
    /\ made
    /\ c \in DOMAIN ops
    /\ ops[c].pc = "unlock"
    /\ mu' = 0
    /\ ops' = [ops EXCEPT ![c].pc = "ret"]
    /\ UNCHANGED <<config, lifecycle, linevars, extra, panic, sinkKind, made, disk, buf,
                   werr, released, sent>>

\* fileOutput.Write, one turn of its loop: o.writer.WriteString(msg + "\n")
FileWriteMessage(c) ==
    /\ sinkKind = "file"
    /\ Op(c, "Write", "body")
    /\ ops[c].i <= Len(ops[c].batch)
    /\ \E st \in WriteString(Writer, WithNewline(ops[c].batch[ops[c].i])) :
          /\ disk' = st.disk
          /\ buf' = st.buf
          /\ werr' = st.werr
          /\ ops' = IF st.err THEN Return(c, TRUE)
                    ELSE [ops EXCEPT ![c].i = ops[c].i + 1]
    /\ UNCHANGED <<config, lifecycle, linevars, extra, panic, sinkKind, made, mu, released, sent>>

FileWriteNoFlush(c) ==
    /\ sinkKind = "file"
    /\ Op(c, "Write", "body")
    /\ ops[c].i > Len(ops[c].batch)
    /\ ops' = Return(c, FALSE)
    /\ UNCHANGED <<config, lifecycle, linevars, extra, panic, sinkKind, made, mu, disk, buf,
                   werr, released, sent>>

\* fileOutput.Write after its loop: return o.writer.Flush()
FileWriteFlush(c) ==
    /\ sinkKind = "file"
    /\ Op(c, "Write", "body")
    /\ ops[c].i > Len(ops[c].batch)
    /\ \E st \in Flush(Writer) :
          /\ disk' = st.disk
          /\ buf' = st.buf
          /\ werr' = st.werr
          /\ ops' = Return(c, st.err)
    /\ UNCHANGED <<config, lifecycle, linevars, extra, panic, sinkKind, made, mu, released, sent>>

\* fileOutput.Close: o.writer.Flush(), its error returned at once
FileCloseFlush(c) ==
    /\ sinkKind = "file"
    /\ Op(c, "Close", "body")
    /\ \E st \in Flush(Writer) :
          /\ disk' = st.disk
          /\ buf' = st.buf
          /\ werr' = st.werr
          /\ ops' = IF st.err THEN Return(c, TRUE)
                    ELSE [ops EXCEPT ![c].pc = "close"]
    /\ UNCHANGED <<config, lifecycle, linevars, extra, panic, sinkKind, made, mu, released, sent>>

\* return o.file.Close() of fileOutput.Close
FileClose(c) ==
    /\ sinkKind = "file"
    /\ Op(c, "Close", "close")
    /\ released' = TRUE
    /\ \E err \in (IF released THEN {TRUE} ELSE BOOLEAN) : ops' = Return(c, err)
    /\ UNCHANGED <<config, lifecycle, linevars, extra, panic, sinkKind, made, mu, disk, buf,
                   werr, sent>>

\* udpOutput.Write, one turn of its loop: o.conn.Write(msgBytes), which
\* sends the datagram or fails
UDPWriteMessage(c) ==
    /\ sinkKind = "udp"
    /\ Op(c, "Write", "body")
    /\ ops[c].i <= Len(ops[c].batch)
    /\ \E err \in (IF released THEN {TRUE} ELSE BOOLEAN) :
          IF err
          THEN /\ ops' = Return(c, TRUE)
               /\ UNCHANGED sent
          ELSE /\ sent' = Append(sent, Datagram(ops[c].batch[ops[c].i]))
               /\ ops' = [ops EXCEPT ![c].i = ops[c].i + 1]
    /\ UNCHANGED <<config, lifecycle, linevars, extra, panic, sinkKind, made, mu, disk, buf,
                   werr, released>>

\* udpOutput.Write after its loop: return nil
UDPWriteReturn(c) ==
    /\ sinkKind = "udp"
    /\ Op(c, "Write", "body")
    /\ ops[c].i > Len(ops[c].batch)
    /\ ops' = Return(c, FALSE)
    /\ UNCHANGED <<config, lifecycle, linevars, extra, panic, sinkKind, made, mu, disk, buf,
                   werr, released, sent>>

\* return o.conn.Close() of udpOutput.Close
UDPClose(c) ==
    /\ sinkKind = "udp"
    /\ Op(c, "Close", "body")
    /\ released' = TRUE
    /\ \E err \in (IF released THEN {TRUE} ELSE BOOLEAN) : ops' = Return(c, err)
    /\ UNCHANGED <<config, lifecycle, linevars, extra, panic, sinkKind, made, mu, disk, buf,
                   werr, sent>>

\* ------------------------------------------------- Generator.GenerateLogs

\* the variables GenerateLogs leaves alone
logsapart == <<config, lifecycle, linevars, val, custom, sinkKind, made, mu, ops, sent>>

\* if _, err := os.Stat(outputFile); err == nil { os.Remove(outputFile) }
GenerateLogsStat ==
    /\ glog.pc = "stat"
    /\ IF glog.exists
       THEN \E ok \in BOOLEAN :
               IF ok
               THEN /\ glog' = [glog EXCEPT !.pc = "create", !.exists = FALSE]
                    /\ disk' = <<>>
               ELSE /\ glog' = [glog EXCEPT !.pc = "ret", !.err = TRUE, !.failed = TRUE]
                    /\ UNCHANGED disk
       ELSE /\ glog' = [glog EXCEPT !.pc = "create"]
            /\ UNCHANGED disk
    /\ UNCHANGED <<logsapart, panic, buf, werr, released>>

\* f, err := os.Create(outputFile)
GenerateLogsCreate ==
    /\ glog.pc = "create"
    /\ \E ok \in BOOLEAN :
          IF ok
          THEN /\ glog' = [glog EXCEPT !.pc = "loop", !.exists = TRUE]
               /\ disk' = <<>>
          ELSE /\ glog' = [glog EXCEPT !.pc = "ret", !.err = TRUE, !.failed = TRUE]
               /\ UNCHANGED disk
    /\ UNCHANGED <<logsapart, panic, buf, werr, released>>

\* one turn of the loop: a template is selected and rendered and the line
\* is written with its newline; a line that does not render is skipped
GenerateLogsLine ==
    /\ panic = ""
    /\ glog.pc = "loop"
    /\ glog.i < glog.count
    /\ \E r \in Draws(templates) :
          LET idx == selectWeightedTemplate(templates, r)
          IN  IF idx \notin DOMAIN templates
              THEN /\ panic' = "index out of range"
                   /\ UNCHANGED <<glog, disk, buf, werr>>
              ELSE IF ~templates[idx].renders
              THEN /\ glog' = [glog EXCEPT !.i = glog.i + 1]
                   /\ UNCHANGED <<panic, disk, buf, werr>>
              ELSE \E l \in LineLens("file") :
                      LET logLine == [id |-> <<1, glog.i + 1>>, len |-> l]
                      IN  \E st \in WriteString(Writer, WithNewline(logLine)) :
                             /\ disk' = st.disk
                             /\ buf' = st.buf
                             /\ werr' = st.werr
                             /\ glog' = IF st.err
                                        THEN [glog EXCEPT !.pc = "defer", !.err = TRUE,
                                                          !.failed = TRUE]
                                        ELSE [glog EXCEPT !.i = glog.i + 1,
                                                          !.lines = Append(glog.lines, logLine)]
                             /\ UNCHANGED panic
    /\ UNCHANGED <<logsapart, released>>

\* the loop is over: return nil
GenerateLogsDone ==
    /\ panic = ""
    /\ glog.pc = "loop"
    /\ glog.i >= glog.count
    /\ glog' = [glog EXCEPT !.pc = "defer"]
    /\ UNCHANGED <<logsapart, panic, disk, buf, werr, released>>

GenerateLogsDeferredNoFlush ==
    /\ glog.pc = "defer"
    /\ released' = TRUE
    /\ glog' = [glog EXCEPT !.pc = "ret"]
    /\ UNCHANGED <<logsapart, panic, disk, buf, werr>>

\* at the return: defer writer.Flush(), whose error is dropped, then
\* defer f.Close()
GenerateLogsDeferred ==
    /\ glog.pc = "defer"
    /\ \E st \in Flush(Writer) :
          /\ disk' = st.disk
          /\ buf' = st.buf
          /\ werr' = st.werr
          /\ glog' = [glog EXCEPT !.pc = "ret", !.failed = glog.failed \/ st.err]
    /\ released' = TRUE
    /\ UNCHANGED <<logsapart, panic>>

\* ------------------------------------------- createRandomValueFunc

IndexesInclusive(values) == 0..Len(values)

\* gofakeit.IntRange(0, len(values)-1): the indexes it may return
Indexes(values) == 0..(Len(values) - 1)

\* the function createRandomValueFunc(values) returns, called; rendered is
\* whether a template referencing the type alone called it
RandomValue(rendered) ==
    /\ panic = ""
    /\ Len(custom.out) < MaxLines
    /\ IF Len(custom.values) = 0
       THEN /\ custom' = [custom EXCEPT !.out =
                             Append(custom.out,
                                    [index |-> -1, value |-> "", rendered |-> rendered])]
            /\ UNCHANGED panic
       ELSE \E index \in Indexes(custom.values) :
               IF index + 1 \in DOMAIN custom.values
               THEN /\ custom' = [custom EXCEPT !.out =
                                     Append(custom.out,
                                            [index    |-> index,
                                             value    |-> custom.values[index + 1],
                                             rendered |-> rendered])]
                    /\ UNCHANGED panic
               ELSE /\ panic' = "index out of range"
                    /\ UNCHANGED custom
    /\ UNCHANGED <<config, lifecycle, linevars, sinkvars, val, glog>>

\* the function is called by itself
RandomValueCall == RandomValue(FALSE)

\* GenerateLogLine renders a template that references the type alone: the
\* line is what the function returns
RandomValueRender == RandomValue(TRUE)

\* ------------------------------------------------------------------ Worker

Running(g) == g \in DOMAIN gor /\ panic = ""

NewGoroutine(w) ==
    [w |-> w, pc |-> "select", batch |-> <<>>, count |-> 0, tick |-> FALSE, issued |-> 0]

\* the ticker of the goroutine delivers a tick (ticker.C holds one at most).
\* The loop reads ticker.C in its select only, so a tick that arrives while a
\* case body runs is delivered here, when the loop is back at the select.
Tick(g) ==
    /\ Running(g)
    /\ gor[g].pc = "select"
    /\ ~gor[g].tick
    /\ gor' = [gor EXCEPT ![g].tick = TRUE]
    /\ UNCHANGED <<apart, config, stopClosed, doneClosed, wg, watchers, calls, sink,
                   closed, panic, writeErrSeen, genErrSeen>>

\* select: case <-w.stopChan is ready
SelectStop(g) ==
    /\ Running(g)
    /\ gor[g].pc = "select"
    /\ stopClosed
    /\ gor' = [gor EXCEPT ![g].pc = "stop"]
    /\ UNCHANGED <<apart, config, stopClosed, doneClosed, wg, watchers, calls, sink,
                   closed, panic, writeErrSeen, genErrSeen>>

\* select: case <-ticker.C is ready
SelectTick(g) ==
    /\ Running(g)
    /\ gor[g].pc = "select"
    /\ gor[g].tick
    /\ gor' = [gor EXCEPT ![g].pc = "tick", ![g].tick = FALSE]
    /\ UNCHANGED <<apart, config, stopClosed, doneClosed, wg, watchers, calls, sink,
                   closed, panic, writeErrSeen, genErrSeen>>

SelectDefaultIgnoringStop(g) ==
    /\ Running(g)
    /\ gor[g].pc = "select"
    /\ ~gor[g].tick
    /\ workers[gor[g].w].maxCount = 0 => gor[g].count < MaxGen
    /\ gor' = [gor EXCEPT ![g].pc = "default"]
    /\ UNCHANGED <<apart, config, stopClosed, doneClosed, wg, watchers, calls, sink,
                   closed, panic, writeErrSeen, genErrSeen>>

\* select: no case is ready, default
SelectDefault(g) ==
    /\ Running(g)
    /\ gor[g].pc = "select"
    /\ ~stopClosed
    /\ ~gor[g].tick
    /\ workers[gor[g].w].maxCount = 0 => gor[g].count < MaxGen
    /\ gor' = [gor EXCEPT ![g].pc = "default"]
    /\ UNCHANGED <<apart, config, stopClosed, doneClosed, wg, watchers, calls, sink,
                   closed, panic, writeErrSeen, genErrSeen>>

\* w.Output.Write(batch) of goroutine g, the error printed and dropped
OutputWrite(g) ==
    \E res \in WriteResults(sink[gor[g].w], gor[g].batch, closed[gor[g].w]) :
        /\ sink' = [sink EXCEPT ![gor[g].w] = res.content]
        /\ writeErrSeen' = (writeErrSeen \/ res.err)

NoFinalFlush(g) ==
    UNCHANGED <<sink, writeErrSeen>>

\* if len(batch) > 0 { w.Output.Write(batch) } before a return
FinalFlush(g) ==
    IF Len(gor[g].batch) > 0
    THEN OutputWrite(g)
    ELSE UNCHANGED <<sink, writeErrSeen>>

StopCaseNoReturn(g) ==
    /\ Running(g)
    /\ gor[g].pc = "stop"
    /\ FinalFlush(g)
    /\ gor' = [gor EXCEPT ![g].pc = "select", ![g].issued = gor[g].count]
    /\ UNCHANGED <<apart, config, stopClosed, doneClosed, wg, watchers, calls,
                   closed, panic, genErrSeen>>

\* the body of case <-w.stopChan
StopCase(g) ==
    /\ Running(g)
    /\ gor[g].pc = "stop"
    /\ FinalFlush(g)
    /\ gor' = [gor EXCEPT ![g].pc = "returned", ![g].issued = gor[g].count]
    /\ UNCHANGED <<apart, config, stopClosed, doneClosed, wg, watchers, calls,
                   closed, panic, genErrSeen>>

TickCaseStopsOnError(g) ==
    /\ Running(g)
    /\ gor[g].pc = "tick"
    /\ IF Len(gor[g].batch) >= workers[gor[g].w].batchSize
       THEN \E res \in WriteResults(sink[gor[g].w], gor[g].batch, closed[gor[g].w]) :
               /\ sink' = [sink EXCEPT ![gor[g].w] = res.content]
               /\ writeErrSeen' = (writeErrSeen \/ res.err)
               /\ gor' = [gor EXCEPT ![g].pc = IF res.err THEN "returned" ELSE "select",
                                     ![g].batch = <<>>,
                                     ![g].issued = gor[g].count]
       ELSE /\ gor' = [gor EXCEPT ![g].pc = "select"]
            /\ UNCHANGED <<sink, writeErrSeen>>
    /\ UNCHANGED <<apart, config, stopClosed, doneClosed, wg, watchers, calls,
                   closed, panic, genErrSeen>>

TickCaseKeepsBatch(g) ==
    /\ Running(g)
    /\ gor[g].pc = "tick"
    /\ IF Len(gor[g].batch) >= workers[gor[g].w].batchSize
       THEN /\ OutputWrite(g)
            /\ gor' = [gor EXCEPT ![g].pc = "select", ![g].issued = gor[g].count]
       ELSE /\ gor' = [gor EXCEPT ![g].pc = "select"]
            /\ UNCHANGED <<sink, writeErrSeen>>
    /\ UNCHANGED <<apart, config, stopClosed, doneClosed, wg, watchers, calls,
                   closed, panic, genErrSeen>>

TickCaseAnyLength(g) ==
    /\ Running(g)
    /\ gor[g].pc = "tick"
    /\ IF Len(gor[g].batch) > 0
       THEN /\ OutputWrite(g)
            /\ gor' = [gor EXCEPT ![g].pc = "select", ![g].batch = <<>>,
                                  ![g].issued = gor[g].count]
       ELSE /\ gor' = [gor EXCEPT ![g].pc = "select"]
            /\ UNCHANGED <<sink, writeErrSeen>>
    /\ UNCHANGED <<apart, config, stopClosed, doneClosed, wg, watchers, calls,
                   closed, panic, genErrSeen>>

\* the body of case <-ticker.C
TickCase(g) ==
    /\ Running(g)
    /\ gor[g].pc = "tick"
    /\ IF Len(gor[g].batch) >= workers[gor[g].w].batchSize
       THEN /\ OutputWrite(g)
            /\ gor' = [gor EXCEPT ![g].pc = "select", ![g].batch = <<>>,
                                  ![g].issued = gor[g].count]
       ELSE /\ gor' = [gor EXCEPT ![g].pc = "select"]
            /\ UNCHANGED <<sink, writeErrSeen>>
    /\ UNCHANGED <<apart, config, stopClosed, doneClosed, wg, watchers, calls,
                   closed, panic, genErrSeen>>

LimitReachedLate(g) ==
    workers[gor[g].w].maxCount > 0 /\ gor[g].count > workers[gor[g].w].maxCount

LimitReached(g) ==
    workers[gor[g].w].maxCount > 0 /\ gor[g].count >= workers[gor[g].w].maxCount

DefaultCaseCountsErrors(g) ==
    /\ Running(g)
    /\ gor[g].pc = "default"
    /\ IF LimitReached(g)
       THEN /\ FinalFlush(g)
            /\ gor' = [gor EXCEPT ![g].pc = "returned", ![g].issued = gor[g].count]
            /\ UNCHANGED genErrSeen
       ELSE \E ok \in GenerateLogLine :
               /\ IF ok
                  THEN gor' = [gor EXCEPT
                                 ![g].pc = "select",
                                 ![g].batch = Append(gor[g].batch, <<g, gor[g].count + 1>>),
                                 ![g].count = gor[g].count + 1]
                  ELSE gor' = [gor EXCEPT ![g].pc = "select",
                                          ![g].count = gor[g].count + 1]
               /\ genErrSeen' = (genErrSeen \/ ~ok)
               /\ UNCHANGED <<sink, writeErrSeen>>
    /\ UNCHANGED <<apart, config, stopClosed, doneClosed, wg, watchers, calls,
                   closed, panic>>

\* the body of default
DefaultCase(g) ==
    /\ Running(g)
    /\ gor[g].pc = "default"
    /\ IF LimitReached(g)
       THEN /\ FinalFlush(g)
            /\ gor' = [gor EXCEPT ![g].pc = "returned", ![g].issued = gor[g].count]
            /\ UNCHANGED genErrSeen
       ELSE \E ok \in GenerateLogLine :
               /\ IF ok
                  THEN gor' = [gor EXCEPT
                                 ![g].pc = "select",
                                 ![g].batch = Append(gor[g].batch, <<g, gor[g].count + 1>>),
                                 ![g].count = gor[g].count + 1]
                  ELSE gor' = [gor EXCEPT ![g].pc = "select"]
               /\ genErrSeen' = (genErrSeen \/ ~ok)
               /\ UNCHANGED <<sink, writeErrSeen>>
    /\ UNCHANGED <<apart, config, stopClosed, doneClosed, wg, watchers, calls,
                   closed, panic>>

\* Worker.Stop(): close(w.stopChan)
WorkerStop ==
    /\ panic = ""
    /\ IF stopClosed
       THEN panic' = "close of closed channel: stopChan" /\ UNCHANGED stopClosed
       ELSE stopClosed' = TRUE /\ UNCHANGED panic
    /\ UNCHANGED <<apart, config, doneClosed, wg, gor, watchers, calls, sink, closed,
                   writeErrSeen, genErrSeen>>

\* --------------------------------------------------------- Generator.Start

GoroutineExitNoDone(g) ==
    /\ Running(g)
    /\ gor[g].pc = "returned"
    /\ gor' = [gor EXCEPT ![g].pc = "exited"]
    /\ UNCHANGED <<apart, config, stopClosed, doneClosed, wg, watchers, calls, sink,
                   closed, panic, writeErrSeen, genErrSeen>>

\* defer g.wg.Done() of the goroutine Start launched
GoroutineExit(g) ==
    /\ Running(g)
    /\ gor[g].pc = "returned"
    /\ gor' = [gor EXCEPT ![g].pc = "exited"]
    /\ wg' = wg - 1
    /\ UNCHANGED <<apart, config, stopClosed, doneClosed, watchers, calls, sink,
                   closed, panic, writeErrSeen, genErrSeen>>

InCall(c, op, pc) ==
    /\ panic = ""
    /\ c \in DOMAIN calls
    /\ calls[c].op = op
    /\ calls[c].pc = pc

\* NewGenerator has returned a Generator, not nil and an error
GeneratorMade == ctor.pc = "ret" /\ ~ctor.err

BeginCall(op) ==
    /\ panic = ""
    /\ GeneratorMade
    /\ calls' = Append(calls, [op |-> op, pc |-> IF op = "Start" THEN "spawn" ELSE "close",
                               i |-> 1, err |-> FALSE])
    /\ UNCHANGED <<apart, config, stopClosed, doneClosed, wg, gor, watchers, sink,
                   closed, panic, writeErrSeen, genErrSeen>>

\* one turn of the loop over g.workers: g.wg.Add(1); go func(w) {...}(worker)
StartSpawn(c) ==
    /\ InCall(c, "Start", "spawn")
    /\ calls[c].i <= Len(workers)
    /\ wg' = wg + 1
    /\ gor' = Append(gor, NewGoroutine(calls[c].i))
    /\ calls' = [calls EXCEPT ![c].i = calls[c].i + 1]
    /\ UNCHANGED <<apart, config, stopClosed, doneClosed, watchers, sink, closed,
                   panic, writeErrSeen, genErrSeen>>

WatchAlways == TRUE

WatchCompletion == maxCount > 0

\* after the loop: the completion goroutine, when there is a max count
StartFinish(c) ==
    /\ InCall(c, "Start", "spawn")
    /\ calls[c].i > Len(workers)
    /\ watchers' = IF WatchCompletion THEN Append(watchers, "waiting") ELSE watchers
    /\ calls' = [calls EXCEPT ![c].pc = "ret"]
    /\ UNCHANGED <<apart, config, stopClosed, doneClosed, wg, gor, sink, closed,
                   panic, writeErrSeen, genErrSeen>>

WaitGroupIdle == wg = 0

WatcherWaitSkipped(k) ==
    /\ panic = ""
    /\ k \in DOMAIN watchers
    /\ watchers[k] = "waiting"
    /\ watchers' = [watchers EXCEPT ![k] = "closing"]
    /\ UNCHANGED <<apart, config, stopClosed, doneClosed, wg, gor, calls, sink,
                   closed, panic, writeErrSeen, genErrSeen>>

WatcherWaitUnlessStopped(k) ==
    /\ panic = ""
    /\ k \in DOMAIN watchers
    /\ watchers[k] = "waiting"
    /\ WaitGroupIdle
    /\ ~stopClosed
    /\ watchers' = [watchers EXCEPT ![k] = "closing"]
    /\ UNCHANGED <<apart, config, stopClosed, doneClosed, wg, gor, calls, sink,
                   closed, panic, writeErrSeen, genErrSeen>>

\* g.wg.Wait() of the completion goroutine returns
WatcherWait(k) ==
    /\ panic = ""
    /\ k \in DOMAIN watchers
    /\ watchers[k] = "waiting"
    /\ WaitGroupIdle
    /\ watchers' = [watchers EXCEPT ![k] = "closing"]
    /\ UNCHANGED <<apart, config, stopClosed, doneClosed, wg, gor, calls, sink,
                   closed, panic, writeErrSeen, genErrSeen>>

\* close(g.doneChan)
WatcherClose(k) ==
    /\ panic = ""
    /\ k \in DOMAIN watchers
    /\ watchers[k] = "closing"
    /\ IF doneClosed
       THEN panic' = "close of closed channel: doneChan" /\ UNCHANGED doneClosed
       ELSE doneClosed' = TRUE /\ UNCHANGED panic
    /\ watchers' = [watchers EXCEPT ![k] = "finished"]
    /\ UNCHANGED <<apart, config, stopClosed, wg, gor, calls, sink, closed,
                   writeErrSeen, genErrSeen>>

\* ---------------------------------------------------------- Generator.Stop

\* close(g.stopChan)
StopSignal(c) ==
    /\ InCall(c, "Stop", "close")
    /\ IF stopClosed
       THEN panic' = "close of closed channel: stopChan" /\ UNCHANGED <<stopClosed, calls>>
       ELSE /\ stopClosed' = TRUE
            /\ calls' = [calls EXCEPT ![c].pc = "wait"]
            /\ UNCHANGED panic
    /\ UNCHANGED <<apart, config, doneClosed, wg, gor, watchers, sink, closed,
                   writeErrSeen, genErrSeen>>

StopWaitSkipped(c) ==
    /\ InCall(c, "Stop", "wait")
    /\ calls' = [calls EXCEPT ![c].pc = "closing"]
    /\ UNCHANGED <<apart, config, stopClosed, doneClosed, wg, gor, watchers, sink,
                   closed, panic, writeErrSeen, genErrSeen>>

\* g.wg.Wait() returns
StopWait(c) ==
    /\ InCall(c, "Stop", "wait")
    /\ WaitGroupIdle
    /\ calls' = [calls EXCEPT ![c].pc = "closing"]
    /\ UNCHANGED <<apart, config, stopClosed, doneClosed, wg, gor, watchers, sink,
                   closed, panic, writeErrSeen, genErrSeen>>

\* one turn of the loop closing the outputs; the first error is returned
StopCloseOutput(c) ==
    /\ InCall(c, "Stop", "closing")
    /\ calls[c].i <= Len(workers)
    /\ \E res \in CloseResults(closed[calls[c].i]) :
          /\ closed' = [closed EXCEPT ![calls[c].i] = res.closed]
          /\ calls' = IF res.err
                      THEN [calls EXCEPT ![c].pc = "ret", ![c].err = TRUE]
                      ELSE [calls EXCEPT ![c].i = calls[c].i + 1]
    /\ UNCHANGED <<apart, config, stopClosed, doneClosed, wg, gor, watchers, sink,
                   panic, writeErrSeen, genErrSeen>>

\* return nil
StopReturn(c) ==
    /\ InCall(c, "Stop", "closing")
    /\ calls[c].i > Len(workers)
    /\ calls' = [calls EXCEPT ![c].pc = "ret"]
    /\ UNCHANGED <<apart, config, stopClosed, doneClosed, wg, gor, watchers, sink,
                   closed, panic, writeErrSeen, genErrSeen>>

\* ------------------------------------------------------------- the callers

Called(op) == \E c \in DOMAIN calls : calls[c].op = op

Returned(op) == \E c \in DOMAIN calls : calls[c].op = op /\ calls[c].pc = "ret"

\* the documented use: gen.Start() once ...
CallStart ==
    /\ ~Called("Start")
    /\ BeginCall("Start")

\* ... and gen.Stop() once, after Start() has returned
CallStop ==
    /\ Returned("Start")
    /\ ~Called("Stop")
    /\ BeginCall("Stop")

NumCalls(op) == Cardinality({c \in DOMAIN calls : calls[c].op = op})

\* any caller, any order, concurrently
CallAny ==
    /\ Len(calls) < MaxCalls
    /\ \E op \in {"Start", "Stop"} :
          /\ op = "Start" => (NumCalls("Start") + 1) * Len(workers) <= MaxWorkers
          /\ BeginCall(op)

\* ----------------------------------------------------------- specifications

InitLifecycle ==
    /\ stopClosed = FALSE
    /\ doneClosed = FALSE
    /\ wg = 0
    /\ watchers = <<>>
    /\ calls = <<>>
    /\ sink = [w \in 1..Len(workers) |-> <<>>]
    /\ closed = [w \in 1..Len(workers) |-> FALSE]
    /\ panic = ""
    /\ writeErrSeen = FALSE
    /\ genErrSeen = FALSE
    /\ seed = 0
    /\ InitFaker
    /\ gens = <<>>
    /\ NoSink
    /\ NoExtra

\* the state NewGenerator(cfg, maxCount) returns, for a maxCount up to `target`
InitUpTo(target) ==
    /\ maxCount \in 0..target
    /\ outputs \in OutputConfigs
    /\ templates \in TemplateConfigs
    /\ workers = initializeOutputs(outputs, maxCount)
    /\ ctor = Constructed(outputs)
    /\ gor = <<>>
    /\ InitLifecycle

Init == InitUpTo(MaxTarget)

\* the state NewGenerator(cfg, maxCount) returns for a max count
InitTarget ==
    /\ InitUpTo(MaxFairTarget)
    /\ maxCount > 0

InitFair == InitUpTo(MaxFairTarget)

\* NewGenerator(cfg, maxCount) entering initializeOutputs, for any cfg: nothing
\* has validated it
NewOutputConfigs ==
    {<<>>}
    \cup {<<FileOutputConfig(1, a, s)>> : a \in 0..MaxInitWorkers, s \in 0..MaxInitBatch}
    \cup {<<FileOutputConfig(1, a, s), FileOutputConfig(2, b, t)>> :
             a, b \in 0..MaxInitWorkers, s, t \in 0..MaxInitBatch}

InitNew ==
    /\ maxCount \in 0..MaxInitTarget
    /\ outputs \in NewOutputConfigs
    /\ templates \in {<<>>, <<[Weight |-> 1, renders |-> TRUE]>>}
    /\ workers = <<>>
    /\ ctor = [pc |-> "output", o |-> 1, i |-> 0, per |-> 0, err |-> FALSE]
    /\ gor = <<>>
    /\ InitLifecycle

\* the file names a.log and a_worker0.log
ALog == FileName(<<<<"a", 0>>>>, ".log")

AWorker0Log == FileName(<<<<"a", 0>>, WorkerSuffix(0)>>, ".log")

\* the outputs of a configuration as written by a user: of a supported type
\* or not, with or without the parameter its type requires
AnyOutputConfigs ==
    {[Type |-> "file", Config |-> Nothing],
     [Type |-> "file", Config |-> WithFilename(ALog)],
     [Type |-> "file", Config |-> WithFilename(AWorker0Log)],
     [Type |-> "udp", Config |-> Nothing],
     [Type |-> "udp", Config |-> WithAddress],
     [Type |-> "invalid", Config |-> WithFilename(ALog)]}

RECURSIVE AnyOutputsOfLen(_)
AnyOutputsOfLen(n) ==
    IF n = 0 THEN {<<>>}
    ELSE {Append(o, [Type |-> c.Type, Workers |-> w, BatchSize |-> 0, Config |-> c.Config]) :
             o \in AnyOutputsOfLen(n - 1), c \in AnyOutputConfigs, w \in 1..MaxWorkers}

\* NewGenerator(cfg, maxCount) entering initializeOutputs, for outputs of any
\* type and parameters
InitOutputs ==
    /\ maxCount \in 0..MaxTarget
    /\ outputs \in {o \in UNION {AnyOutputsOfLen(n) : n \in 1..MaxWorkers} :
                        SumWorkers(o) <= MaxWorkers}
    /\ templates = <<[Weight |-> 1, renders |-> TRUE]>>
    /\ workers = <<>>
    /\ ctor = [pc |-> "output", o |-> 1, i |-> 0, per |-> 0, err |-> FALSE]
    /\ gor = <<>>
    /\ InitLifecycle

\* a worker of its own: NewWorker(out, gen, batchSize, maxCount, stopChan) and
\* go worker.Start()
InitWorker ==
    /\ maxCount \in 0..MaxLimit
    /\ outputs = <<FileOutputConfig(1, 1, 0)>>
    /\ templates \in TemplateConfigs
    /\ \E b \in 1..MaxBatch :
          workers = <<[maxCount |-> maxCount, batchSize |-> b, output |-> 1, id |-> 0,
                       kind |-> "file", filename |-> OutLog(1)]>>
    /\ ctor = Constructed(outputs)
    /\ gor = <<NewGoroutine(1)>>
    /\ InitLifecycle

\* a template list whose only template names an unknown placeholder
UnknownPlaceholder == <<[Weight |-> 1, renders |-> FALSE]>>

\* a worker of its own whose generator may fail at every call
InitFailing ==
    /\ maxCount \in 0..MaxLimit
    /\ outputs = <<FileOutputConfig(1, 1, 0)>>
    /\ templates \in TemplateConfigs \cup {UnknownPlaceholder}
    /\ \E b \in 1..MaxBatch :
          workers = <<[maxCount |-> maxCount, batchSize |-> b, output |-> 1, id |-> 0,
                       kind |-> "file", filename |-> OutLog(1)]>>
    /\ ctor = Constructed(outputs)
    /\ gor = <<NewGoroutine(1)>>
    /\ InitLifecycle

RECURSIVE TemplatesOfLen(_)
TemplatesOfLen(n) ==
    IF n = 0 THEN {<<>>}
    ELSE {Append(t, [Weight |-> w, renders |-> TRUE]) :
             t \in TemplatesOfLen(n - 1), w \in 0..MaxWeight}

\* a configuration for GenerateLogLine alone: templates, a seed, no outputs
InitLine ==
    /\ maxCount = 0
    /\ outputs = <<>>
    /\ templates \in UNION {TemplatesOfLen(n) : n \in 0..MaxTemplates}
    /\ workers = <<>>
    /\ ctor = Constructed(outputs)
    /\ gor = <<>>
    /\ stopClosed = FALSE
    /\ doneClosed = FALSE
    /\ wg = 0
    /\ watchers = <<>>
    /\ calls = <<>>
    /\ sink = <<>>
    /\ closed = <<>>
    /\ panic = ""
    /\ writeErrSeen = FALSE
    /\ genErrSeen = FALSE
    /\ seed \in Seeds
    /\ InitFaker
    /\ gens = <<>>
    /\ NoSink
    /\ NoExtra

\* the outputs of a configuration as written by a user, with workers and a
\* batch size or without
RECURSIVE WrittenOutputsOfLen(_)
WrittenOutputsOfLen(n) ==
    IF n = 0 THEN {<<>>}
    ELSE {Append(o, [Type |-> c.Type, Workers |-> w, BatchSize |-> b, Config |-> c.Config]) :
             o \in WrittenOutputsOfLen(n - 1), c \in AnyOutputConfigs,
             w \in {0, MaxWorkers}, b \in {0, MaxBatch}}

\* a configuration as ReadConfig returns it, about to be validated
InitValidate ==
    /\ maxCount = 0
    /\ outputs \in UNION {WrittenOutputsOfLen(n) : n \in 0..MaxOutputs}
    /\ templates \in {<<>>, <<[Weight |-> 1, renders |-> TRUE]>>}
    /\ workers = <<>>
    /\ ctor = [pc |-> "output", o |-> 1, i |-> 0, per |-> 0, err |-> FALSE]
    /\ gor = <<>>
    /\ InitLifecycle

\* a configuration with one custom type and a template that references it
InitCustom ==
    /\ maxCount = 0
    /\ outputs = <<>>
    /\ templates = <<[Weight |-> 1, renders |-> TRUE]>>
    /\ workers = <<>>
    /\ ctor = Constructed(outputs)
    /\ gor = <<>>
    /\ stopClosed = FALSE
    /\ doneClosed = FALSE
    /\ wg = 0
    /\ watchers = <<>>
    /\ calls = <<>>
    /\ sink = <<>>
    /\ closed = <<>>
    /\ panic = ""
    /\ writeErrSeen = FALSE
    /\ genErrSeen = FALSE
    /\ seed = 0
    /\ InitFaker
    /\ gens = <<>>
    /\ NoSink
    /\ NoValidate
    /\ NoLogs
    /\ custom \in {[values |-> v, out |-> <<>>] :
                     v \in UNION {[1..n -> {"INFO", "DEBUG", "ERROR"}] : n \in 0..MaxValues}}

\* NewGenerator(cfg) and a call of GenerateLogs(outputFile, count), for an
\* outputFile that exists or not
InitLogs ==
    /\ maxCount = 0
    /\ outputs = <<>>
    /\ templates \in TemplateConfigs \cup {<<>>}
    /\ workers = <<>>
    /\ ctor = Constructed(outputs)
    /\ gor = <<>>
    /\ stopClosed = FALSE
    /\ doneClosed = FALSE
    /\ wg = 0
    /\ watchers = <<>>
    /\ calls = <<>>
    /\ sink = <<>>
    /\ closed = <<>>
    /\ panic = ""
    /\ writeErrSeen = FALSE
    /\ genErrSeen = FALSE
    /\ seed = 0
    /\ InitFaker
    /\ gens = <<>>
    /\ NoValidate
    /\ NoCustom
    /\ \E n \in 0..MaxLines, e \in BOOLEAN :
          /\ glog = [pc |-> "stat", i |-> 0, count |-> n, exists |-> e, err |-> FALSE,
                     lines |-> <<>>, failed |-> FALSE]
          /\ disk = IF e THEN <<Old, NL>> ELSE <<>>
    /\ sinkKind = "file"
    /\ made = FALSE
    /\ mu = 0
    /\ ops = <<>>
    /\ buf = <<>>
    /\ werr = FALSE
    /\ released = FALSE
    /\ sent = <<>>

RECURSIVE BatchesOfLen(_, _, _)
BatchesOfLen(c, kind, n) ==
    IF n = 0 THEN {<<>>}
    ELSE {Append(b, [id |-> <<c, n>>, len |-> l]) :
             b \in BatchesOfLen(c, kind, n - 1), l \in LineLens(kind)}

\* the calls caller c may make
OpsOf(c, kind) ==
    {[op |-> "Close", pc |-> "lock", batch |-> <<>>, i |-> 1, ret |-> "", before |-> <<>>,
      kept |-> <<>>]}
    \cup {[op |-> "Write", pc |-> "lock", batch |-> b, i |-> 1, ret |-> "", before |-> <<>>, kept |-> <<>>] :
              b \in UNION {BatchesOfLen(c, kind, n) : n \in 0..MaxBatchLines}}

\* the calls of the first n callers
RECURSIVE OpsOfCallers(_, _)
OpsOfCallers(n, kind) ==
    IF n = 0 THEN {<<>>}
    ELSE {Append(o, op) : o \in OpsOfCallers(n - 1, kind), op \in OpsOf(n, kind)}

\* an Output about to be made by NewOutput, a file that may exist already,
\* and the calls its callers will make
InitSink ==
    /\ maxCount = 0
    /\ outputs = <<>>
    /\ templates = <<>>
    /\ workers = <<>>
    /\ ctor = Constructed(outputs)
    /\ gor = <<>>
    /\ stopClosed = FALSE
    /\ doneClosed = FALSE
    /\ wg = 0
    /\ watchers = <<>>
    /\ calls = <<>>
    /\ sink = <<>>
    /\ closed = <<>>
    /\ panic = ""
    /\ writeErrSeen = FALSE
    /\ genErrSeen = FALSE
    /\ seed = 0
    /\ InitFaker
    /\ gens = <<>>
    /\ sinkKind \in {"file", "udp"}
    /\ made = FALSE
    /\ mu = 0
    /\ ops \in OpsOfCallers(MaxCallers, sinkKind)
    /\ disk \in (IF sinkKind = "file" THEN {<<>>, <<Old, NL>>} ELSE {<<>>})
    /\ buf = <<>>
    /\ werr = FALSE
    /\ released = FALSE
    /\ sent = <<>>
    /\ NoExtra

Goroutines == 1..MaxWorkers

WorkerStep ==
    \E g \in Goroutines :
        \/ Tick(g)
        \/ SelectStop(g)
        \/ SelectTick(g)
        \/ SelectDefault(g)
        \/ StopCase(g)
        \/ TickCase(g)
        \/ DefaultCase(g)

GeneratorStep ==
    \/ \E g \in Goroutines : GoroutineExit(g)
    \/ \E c \in 1..MaxCalls :
          \/ StartSpawn(c)
          \/ StartFinish(c)
          \/ StopSignal(c)
          \/ StopWait(c)
          \/ StopCloseOutput(c)
          \/ StopReturn(c)
    \/ \E k \in 1..MaxCalls :
          \/ WatcherWait(k)
          \/ WatcherClose(k)

Next == CallStart \/ CallStop \/ WorkerStep \/ GeneratorStep

NextApi == CallAny \/ WorkerStep \/ GeneratorStep

\* Start() and no Stop(): the run of the workers to their limits
NextRun ==
    \/ CallStart
    \/ \E g \in Goroutines :
          \/ Tick(g)
          \/ SelectTick(g)
          \/ SelectDefault(g)
          \/ TickCase(g)
          \/ DefaultCase(g)
          \/ GoroutineExit(g)
    \/ \E c \in 1..MaxCalls :
          \/ StartSpawn(c)
          \/ StartFinish(c)
    \/ \E k \in 1..MaxCalls :
          \/ WatcherWait(k)
          \/ WatcherClose(k)

NextWorker == WorkerStop \/ WorkerStep

NextNew ==
    \/ NewGeneratorOutput
    \/ NewGeneratorSlot
    \/ NewGeneratorNextOutput
    \/ NewGeneratorReturn

\* NewGenerator, then Start() and Stop() on the Generator it returns
NextOutputs ==
    \/ NewGeneratorOutput
    \/ NewGeneratorSlot
    \/ NewGeneratorNextOutput
    \/ NewGeneratorReturn
    \/ CallStart
    \/ CallStop
    \/ WorkerStep
    \/ GeneratorStep

NextSink ==
    \/ SinkCreate
    \/ \E c \in 1..MaxCallers :
          \/ UDPWriteEmpty(c)
          \/ Lock(c)
          \/ Unlock(c)
          \/ FileWriteMessage(c)
          \/ FileWriteFlush(c)
          \/ FileCloseFlush(c)
          \/ FileClose(c)
          \/ UDPWriteMessage(c)
          \/ UDPWriteReturn(c)
          \/ UDPClose(c)

NextValidate ==
    \/ ValidateCall
    \/ ValidateCheck
    \/ ValidateOutput
    \/ ValidateReturn

NextLogs ==
    \/ GenerateLogsStat
    \/ GenerateLogsCreate
    \/ GenerateLogsLine
    \/ GenerateLogsDone
    \/ GenerateLogsDeferred

NextCustom == RandomValueCall \/ RandomValueRender

NextLine ==
    \/ Len(gens) < MaxGens /\ NewGeneratorSeed
    \/ \E i \in 1..MaxGens : GenerateLogLineCall(i)

NextSelect ==
    \/ Len(gens) < 1 /\ NewGeneratorSeed
    \/ GenerateLogLineCall(1)

\* the select of a worker picks among its ready cases at random, so a case
\* that is ready again and again is taken; a tick (one per 100 ms) does not
\* arrive before every select of the loop; every goroutine and every call
\* keeps running
WorkerFairness ==
    \A g \in Goroutines :
        /\ SF_vars(SelectStop(g))
        /\ WF_vars(SelectTick(g))
        /\ SF_vars(SelectDefault(g))
        /\ WF_vars(StopCase(g))
        /\ WF_vars(TickCase(g))
        /\ WF_vars(DefaultCase(g))

GeneratorFairness ==
    /\ \A g \in Goroutines : WF_vars(GoroutineExit(g))
    /\ \A c \in 1..MaxCalls :
          /\ WF_vars(StartSpawn(c))
          /\ WF_vars(StartFinish(c))
          /\ WF_vars(StopSignal(c))
          /\ WF_vars(StopWait(c))
          /\ WF_vars(StopCloseOutput(c))
          /\ WF_vars(StopReturn(c))
    /\ \A k \in 1..MaxCalls :
          /\ WF_vars(WatcherWait(k))
          /\ WF_vars(WatcherClose(k))

\* Start() once, then Stop() at most once
Spec == Init /\ [][Next]_vars

\* Start() and Stop() called in any order and number
SpecApi == Init /\ [][NextApi]_vars

\* one worker built by NewWorker, run on its own
SpecWorker == InitWorker /\ [][NextWorker]_vars

\* NewGenerator building the workers
SpecNew == InitNew /\ [][NextNew]_vars

\* NewGenerator on outputs of any type and parameters, and the use of what
\* it returns
SpecOutputs == InitOutputs /\ [][NextOutputs]_vars

\* NewGenerator on outputs of any type and parameters
SpecNames == InitOutputs /\ [][NextNew]_vars

\* one Output and concurrent callers of its Write and Close
SpecSink == InitSink /\ [][NextSink]_vars

\* Validate called on a configuration
SpecValidate == InitValidate /\ [][NextValidate]_vars

\* a run with a max count that nothing stops
SpecTarget == InitTarget /\ [][NextRun]_vars

\* one call of GenerateLogs
SpecLogs == InitLogs /\ [][NextLogs]_vars

\* the function of one custom type, called by itself and by a template
SpecCustom == InitCustom /\ [][NextCustom]_vars

\* Generators made from one configuration and called one call at a time
SpecLine == InitLine /\ [][NextLine]_vars

\* one Generator called one call at a time
SpecSelect == InitLine /\ [][NextSelect]_vars

\* Start() once, then Stop() at most once, with every goroutine scheduled
FairSpec == InitFair /\ [][Next]_vars /\ WorkerFairness /\ GeneratorFairness

\* one worker run on its own and scheduled, whatever its generator returns
FairSpecFailing == InitFailing /\ [][NextWorker]_vars /\ WorkerFairness

FairSpecWorker == SpecWorker /\ WorkerFairness

\* ------------------------------------------------------------------ claims

\* the lines of goroutine g its Output has received, in order
Received(g) == SelectSeq(sink[gor[g].w], LAMBDA l : l[1] = g)

\* the lines GenerateLogLine has returned to goroutine g, in order
Generated(g) == [k \in 1..gor[g].count |-> <<g, k>>]

Limit(g) == workers[gor[g].w].maxCount

AllLaunched == Len(gor) = Len(workers)

AllExited == \A g \in DOMAIN gor : gor[g].pc = "exited"

\* C1: in bounded mode, once Start() has been called, every worker reaches its
\* limit and terminates and doneChan is closed, unless Stop() is called or a
\* GenerateLogLine call fails.
C1_BoundedCompletion ==
    (maxCount > 0 /\ Called("Start"))
        ~> \/ Called("Stop")
           \/ genErrSeen
           \/ /\ doneClosed
              /\ AllLaunched
              /\ AllExited
              /\ \A g \in DOMAIN gor : gor[g].count = Limit(g)

C1_Witness ==
    /\ maxCount > 0
    /\ ~Called("Stop")
    /\ ~genErrSeen
    /\ doneClosed
    /\ Len(workers) = 2
    /\ AllLaunched
    /\ AllExited
    /\ \A g \in DOMAIN gor : gor[g].count = Limit(g)

\* C2: once the stop signal is raised, every started worker terminates and
\* Stop() returns, with or without a max count.
C2_StopLiveness ==
    stopClosed ~> (AllLaunched /\ AllExited /\ Returned("Stop"))

C2_Witness ==
    /\ maxCount = 0
    /\ Returned("Stop")
    /\ Len(workers) = 2
    /\ AllLaunched
    /\ AllExited
    /\ \E g \in DOMAIN gor : gor[g].count > 0

\* C3: in an unbounded run without a failed Write, when Stop() has returned
\* the Output of every worker has received exactly the lines GenerateLogLine
\* returned to that worker.
C3_NoLineLostOnStop ==
    (maxCount = 0 /\ Returned("Stop") /\ ~writeErrSeen)
        => \A g \in DOMAIN gor : Received(g) = Generated(g)

C3_Witness ==
    /\ maxCount = 0
    /\ Returned("Stop")
    /\ ~writeErrSeen
    /\ AllLaunched
    /\ \A g \in DOMAIN gor : gor[g].count > 0 /\ Received(g) = Generated(g)

\* C4: a worker with a limit N > 0 that has returned without a stop signal and
\* without a failed Write has written exactly N lines, whatever the batch size
\* and the ticks; and a worker with a limit does return, unless the stop signal
\* is raised or GenerateLogLine fails.
C4_ExactCount ==
    /\ [](\A g \in DOMAIN gor :
            (Limit(g) > 0 /\ gor[g].pc = "returned" /\ ~stopClosed /\ ~writeErrSeen)
                => /\ gor[g].count = Limit(g)
                   /\ sink[gor[g].w] = Generated(g))
    /\ \A g \in Goroutines :
          (g \in DOMAIN gor /\ Limit(g) > 0)
              ~> \/ stopClosed
                 \/ genErrSeen
                 \/ (g \in DOMAIN gor /\ gor[g].pc = "returned")

C4_Witness ==
    \E g \in DOMAIN gor :
        /\ Limit(g) = 3
        /\ workers[gor[g].w].batchSize = 2
        /\ gor[g].pc = "returned"
        /\ ~stopClosed
        /\ ~writeErrSeen
        /\ Len(sink[gor[g].w]) = 3

\* C5: whenever doneChan is closed, every worker Start() launched has
\* terminated and every line of its batch has been handed to Write.
C5_DoneImpliesFinished ==
    doneClosed =>
        /\ AllLaunched
        /\ \A g \in DOMAIN gor : gor[g].pc = "exited" /\ gor[g].issued = gor[g].count

C5_Witness ==
    /\ doneClosed
    /\ Len(workers) = 2
    /\ \A g \in DOMAIN gor : gor[g].count > 0

\* C6: without a max count doneChan is never closed, and a worker returns
\* only after the stop signal.
C6_UnboundedNeverDone ==
    maxCount = 0 =>
        /\ ~doneClosed
        /\ \A g \in DOMAIN gor : gor[g].pc \in {"returned", "exited"} => stopClosed

C6_Witness ==
    /\ maxCount = 0
    /\ Returned("Stop")
    /\ Len(gor) > 0
    /\ AllExited
    /\ \E g \in DOMAIN gor : gor[g].count > 0

\* C7: over any sequence of Start() and Stop() calls, close(doneChan) is
\* never attempted on a doneChan that is closed already.
C7_DoneClosedOnce ==
    panic # "close of closed channel: doneChan"

\* C8: every worker of an output with W workers gets the limit ceil(N / W)
\* for a max count N > 0, so W * limit >= N and W * limit < N + W, and the
\* limit 0 for N = 0.
C8_LimitIsCeiling ==
    \A w \in DOMAIN workers :
        LET W == outputs[workers[w].output].Workers
            L == workers[w].maxCount
        IN  IF maxCount > 0
            THEN /\ W * L >= maxCount
                 /\ W * L < maxCount + W
            ELSE L = 0

C8_Witness ==
    \E w \in DOMAIN workers :
        /\ maxCount = 7
        /\ outputs[workers[w].output].Workers = 3
        /\ workers[w].maxCount = 3

\* C9: a worker with a limit L > 0 has appended at most L lines and its
\* Output has received at most L lines, whatever failed and whether or not
\* the stop signal was raised.
C9_NeverExceedsLimit ==
    \A g \in DOMAIN gor :
        Limit(g) > 0 =>
            /\ gor[g].count <= Limit(g)
            /\ Len(gor[g].batch) <= Limit(g)
            /\ Len(sink[gor[g].w]) <= Limit(g)

C9_Witness ==
    \E g \in DOMAIN gor :
        /\ Limit(g) > 0
        /\ gor[g].count = Limit(g)
        /\ gor[g].pc = "returned"
        /\ stopClosed
        /\ writeErrSeen
        /\ genErrSeen

\* C10: the batch of a worker never holds more lines than its batch size, so
\* no Write receives more.
C10_BatchBounded ==
    \A g \in DOMAIN gor : Len(gor[g].batch) <= workers[gor[g].w].batchSize

\* C11: every worker made for an output batches with the BatchSize of that
\* output, and with 100 when the output leaves BatchSize unset (0).
C11_ConfiguredBatchSize ==
    \A w \in DOMAIN workers :
        LET B == outputs[workers[w].output].BatchSize
        IN  workers[w].batchSize = IF B = 0 THEN 100 ELSE B

\* the step of goroutine g that calls GenerateLogLine: the default case, left
\* for the next select
CallsGenerateLogLine(g) ==
    /\ g \in DOMAIN gor
    /\ gor[g].pc = "default"
    /\ gor'[g].pc = "select"

\* C12 as stated: no worker begins a call of GenerateLogLine once the stop
\* signal has been raised.
C12_NoGenerationAfterStop ==
    [][\A g \in Goroutines : CallsGenerateLogLine(g) => ~stopClosed]_vars

\* C12 as amended: once the stop signal has been raised no select of a worker
\* chooses default, so the only call of GenerateLogLine a worker begins after
\* the signal is that of an iteration whose select chose default before it.
C12_NoDefaultAfterStop ==
    [][\A g \in Goroutines :
          (g \in DOMAIN gor /\ stopClosed /\ gor[g].pc = "select")
              => gor'[g].pc # "default"]_vars

C12_Witness ==
    \E g \in DOMAIN gor :
        /\ stopClosed
        /\ gor[g].pc = "default"
        /\ ~LimitReached(g)

IsPrefix(s, t) == Len(s) <= Len(t) /\ s = SubSeq(t, 1, Len(s))

\* C13: while no Write has failed, the lines the Output of a worker has
\* received are a prefix of the lines GenerateLogLine returned to that
\* worker, in the same order, none of them twice, and the lines not yet
\* received are those of its batch.
C13_OrderedNoDuplicates ==
    ~writeErrSeen =>
        \A g \in DOMAIN gor :
            /\ IsPrefix(Received(g), Generated(g))
            /\ gor[g].pc \notin {"returned", "exited"}
                  => Received(g) \o gor[g].batch = Generated(g)

C13_Witness ==
    \E g \in DOMAIN gor :
        /\ ~writeErrSeen
        /\ workers[gor[g].w].batchSize = 2
        /\ gor[g].pc = "returned"
        /\ gor[g].issued = 3
        /\ Len(Received(g)) = 3
        /\ Len(gor[g].batch) = 1

IsSuffix(s, t) == Len(s) <= Len(t) /\ s = SubSeq(t, Len(t) - Len(s) + 1, Len(t))

\* the worker of goroutine g has returned and the Write of its final flush,
\* if there was one, returned no error: the Output holds the whole batch
FinalFlushSucceeded(g) ==
    /\ gor[g].pc \in {"returned", "exited"}
    /\ Len(gor[g].batch) > 0 => IsSuffix(gor[g].batch, Received(g))

\* C14: when a worker has returned and the Write of its final flush did not
\* fail, every line it generated has been received by its Output, whether or
\* not the Write of a periodic flush failed before.
C14_DroppedOnlyByFinalFlush ==
    \A g \in DOMAIN gor :
        FinalFlushSucceeded(g) => Received(g) = Generated(g)

\* the worker of goroutine g may generate another line within the bounds
MayGenerate(g) == Limit(g) = 0 => gor[g].count < MaxGen

\* C15: a call of GenerateLogLine either returns a line, which is appended
\* and counted, or returns an error, and then the batch, the count and the
\* Output are as before and the worker is back at its select; after an error
\* the worker reaches the default case again unless the stop signal is raised.
C15_GenerationErrorNotFatal ==
    /\ [][\A g \in Goroutines :
            CallsGenerateLogLine(g) =>
                /\ sink' = sink
                /\ \/ /\ gor'[g].count = gor[g].count + 1
                      /\ gor'[g].batch = Append(gor[g].batch, <<g, gor'[g].count>>)
                   \/ /\ genErrSeen'
                      /\ gor'[g].count = gor[g].count
                      /\ gor'[g].batch = gor[g].batch]_vars
    /\ \A g \in Goroutines :
          (g \in DOMAIN gor /\ genErrSeen /\ gor[g].pc = "select" /\ MayGenerate(g))
              ~> \/ stopClosed
                 \/ (g \in DOMAIN gor /\ gor[g].pc = "default")

C15_Witness ==
    \E g \in DOMAIN gor :
        /\ genErrSeen
        /\ ~stopClosed
        /\ ~writeErrSeen
        /\ Limit(g) = 3
        /\ gor[g].pc = "returned"
        /\ Len(Received(g)) = 3

\* C16: the tick case always leaves the worker at its select, whether or not
\* its Write failed; a worker returns only from the stop case or from the
\* default case at its limit, and the stop case always returns; and a worker
\* with a limit still reaches its limit after a failed Write, unless the stop
\* signal is raised or GenerateLogLine fails.
C16_PeriodicWriteErrorNotFatal ==
    /\ [][\A g \in Goroutines :
            (g \in DOMAIN gor /\ gor'[g].pc # gor[g].pc) =>
                /\ gor[g].pc = "tick" => gor'[g].pc = "select"
                /\ gor[g].pc = "stop" => gor'[g].pc = "returned"
                /\ gor'[g].pc = "returned" =>
                      \/ gor[g].pc = "stop"
                      \/ gor[g].pc = "default" /\ LimitReached(g)]_vars
    /\ \A g \in Goroutines :
          (g \in DOMAIN gor /\ Limit(g) > 0 /\ writeErrSeen)
              ~> \/ stopClosed
                 \/ genErrSeen
                 \/ (g \in DOMAIN gor /\ gor[g].pc = "returned"
                                       /\ gor[g].count = Limit(g))

C16_Witness ==
    \E g \in DOMAIN gor :
        /\ writeErrSeen
        /\ ~stopClosed
        /\ Limit(g) = 3
        /\ gor[g].pc = "select"
        /\ gor[g].issued = 2
        /\ gor[g].count = 3
        /\ Len(gor[g].batch) = 1

\* call c of Stop() has called Close on the Output of worker w: its loop is
\* past w, or stopped at w with the error of that Close
CloseCalled(c, w) ==
    IF calls[c].err THEN w <= calls[c].i ELSE w < calls[c].i

\* C17: when Stop() has returned it has called Close on the Output of every
\* worker, also after a Close that returned an error.
C17_StopClosesAllSinks ==
    \A c \in DOMAIN calls :
        (calls[c].op = "Stop" /\ calls[c].pc = "ret")
            => \A w \in DOMAIN workers : CloseCalled(c, w)

\* the step of goroutine g that calls w.Output.Write(batch): the tick case
\* with a full batch, the stop case or the default case at the limit with a
\* batch that is not empty
CallsWrite(g) ==
    /\ g \in DOMAIN gor
    /\ gor'[g].pc # gor[g].pc
    /\ \/ gor[g].pc = "tick" /\ Len(gor[g].batch) >= workers[gor[g].w].batchSize
       \/ gor[g].pc = "stop" /\ Len(gor[g].batch) > 0
       \/ gor[g].pc = "default" /\ LimitReached(g) /\ Len(gor[g].batch) > 0

\* C18: for every interleaving of calls of Start() and Stop(), no worker calls
\* Write on an Output that Stop() has closed.
C18_NoWriteAfterClose ==
    [][\A g \in Goroutines : CallsWrite(g) => ~closed[gor[g].w]]_vars

C18_Witness ==
    /\ Len(calls) = 2
    /\ calls[1].op = "Stop"
    /\ calls[2].op = "Start"
    /\ \E g \in DOMAIN gor :
          /\ closed[gor[g].w]
          /\ gor[g].pc = "exited"
          /\ gor[g].count > 0
          /\ Received(g) = Generated(g)

\* C19: from a configuration without templates or without outputs
\* NewGenerator makes no Output and no worker, and it returns an error.
C19_UnusableConfigRejected ==
    (Len(templates) = 0 \/ Len(outputs) = 0) =>
        /\ workers = <<>>
        /\ sink = <<>>
        /\ ctor.pc = "ret" => ctor.err

\* the workers made for output o
WorkersMadeFor(o) == {w \in DOMAIN workers : workers[w].output = o}

\* C20: NewGenerator does not panic, and when it returns without an error it
\* has made, for every output, as many workers as the output configures, and
\* one worker for an output that leaves Workers unset (0).
C20_WorkersDefaultToOne ==
    /\ panic = ""
    /\ (ctor.pc = "ret" /\ ~ctor.err) =>
          \A o \in DOMAIN outputs :
              Cardinality(WorkersMadeFor(o))
                  = IF outputs[o].Workers = 0 THEN 1 ELSE outputs[o].Workers

Min(a, b) == IF a <= b THEN a ELSE b

\* C21: two generators made from the same configuration with a seed other
\* than 0 return the same lines, call for call, in whatever order they are
\* made and called.
C21_SeededDeterminism ==
    seed # 0 =>
        \A i, j \in DOMAIN gens :
            \A k \in 1..Min(Len(gens[i].out), Len(gens[j].out)) :
                gens[i].out[k].line = gens[j].out[k].line

\* the sum of the weights of the first n templates
RECURSIVE WeightBefore(_)
WeightBefore(n) ==
    IF n = 0 THEN 0 ELSE WeightBefore(n - 1) + templates[n].Weight

\* the calls of GenerateLogLine that have selected a template by a draw
Selections ==
    {e \in UNION {{gens[i].out[k] : k \in DOMAIN gens[i].out} : i \in DOMAIN gens} :
        e.r >= 0}

\* C22: with a total weight W > 0, a draw r of 0..W-1 selects the one template
\* i whose weights before it sum to at most r and with it to more than r, so
\* exactly Weight(i) of the W draws select template i.
C22_WeightedSelection ==
    TotalWeight(templates) > 0 =>
        /\ \A e \in Selections :
              /\ e.r \in 0..(TotalWeight(templates) - 1)
              /\ e.idx \in DOMAIN templates
              /\ WeightBefore(e.idx - 1) <= e.r
              /\ e.r < WeightBefore(e.idx)
        /\ \A i \in DOMAIN templates :
              Cardinality({r \in 0..(TotalWeight(templates) - 1) :
                              selectWeightedTemplate(templates, r) = i})
                  = templates[i].Weight

C22_Witness ==
    /\ Len(templates) = 3
    /\ templates[1].Weight = 1
    /\ templates[2].Weight = 2
    /\ templates[3].Weight = 2
    /\ \E e, f \in Selections : e.r = 2 /\ e.idx = 2 /\ f.r = 3 /\ f.idx = 3

\* C23: when some template has a positive weight, no draw selects a template
\* of weight 0, wherever it is in the list.
C23_ZeroWeightNeverSelected ==
    TotalWeight(templates) > 0 =>
        /\ \A e \in Selections : templates[e.idx].Weight > 0
        /\ \A r \in 0..(TotalWeight(templates) - 1) :
              templates[selectWeightedTemplate(templates, r)].Weight # 0

C23_Witness ==
    /\ Len(templates) = 3
    /\ templates[1].Weight = 0
    /\ templates[2].Weight = 1
    /\ templates[3].Weight = 0
    /\ \E i \in DOMAIN gens :
          /\ Len(gens[i].out) = 2
          /\ \A k \in 1..2 : gens[i].out[k].r = 0 /\ gens[i].out[k].idx = 2

FileWorkers == {w \in DOMAIN workers : workers[w].kind = "file"}

\* C25 as stated: any two workers of a Generator write files of different
\* names, for any configuration.
C25_DistinctFilesAllWorkers ==
    \A v, w \in FileWorkers : v # w => workers[v].filename # workers[w].filename

\* C25 as amended: any two workers of one output write files of different
\* names: worker i of an output with more than one worker writes
\* base_worker<i>ext, the worker of an output with one worker the configured
\* name.
C25_DistinctFilesPerOutput ==
    /\ \A v, w \in FileWorkers :
          (v # w /\ workers[v].output = workers[w].output)
              => workers[v].filename # workers[w].filename
    /\ \A w \in FileWorkers :
          LET cfg == outputs[workers[w].output]
          IN  /\ workers[w].filename.ext = cfg.Config.filename.ext
              /\ workers[w].filename.base =
                    IF cfg.Workers > 1
                    THEN cfg.Config.filename.base \o <<<<"_worker", workers[w].id>>>>
                    ELSE cfg.Config.filename.base

C25_Witness ==
    /\ GeneratorMade
    /\ Len(outputs) = 1
    /\ Len(workers) = 2
    /\ workers[1].filename = AWorker0Log
    /\ workers[2].filename = FileName(<<<<"a", 0>>, <<"_worker", 1>>>>, ".log")

\* the output has a type NewOutput does not support, or lacks the parameter
\* its type requires
Unusable(cfg) ==
    \/ cfg.Type \notin {"file", "udp"}
    \/ cfg.Type = "file" /\ ~cfg.Config.hasFilename
    \/ cfg.Type = "udp" /\ ~cfg.Config.hasAddress

\* C30: NewOutput returns an error for an unsupported type and for a missing
\* filename or address; when NewGenerator has returned without having made
\* every worker it has returned an error; and after an error no call of
\* Start() or Stop() has begun, no worker runs and no Output has received a
\* line.
C30_SinkErrorAbortsConstruction ==
    /\ \A o \in DOMAIN outputs :
          Unusable(outputs[o]) =>
              \A i \in 0..(outputs[o].Workers - 1) :
                  \A res \in NewOutput(outputs[o], i) : res.err
    /\ (ctor.pc = "ret" /\ Len(workers) < SumWorkers(outputs)) => ctor.err
    /\ (ctor.pc = "ret" /\ \E o \in DOMAIN outputs : Unusable(outputs[o])) => ctor.err
    /\ ctor.err =>
          /\ calls = <<>>
          /\ gor = <<>>
          /\ \A w \in DOMAIN sink : sink[w] = <<>>

C30_Witness ==
    /\ ctor.pc = "ret"
    /\ ctor.err
    /\ Len(outputs) = 2
    /\ ~Unusable(outputs[1])
    /\ outputs[2].Type = "invalid"
    /\ Len(workers) = 1

\* the calls of Write of the Output that hold its mutex
Writing == {c \in DOMAIN ops : ops[c].op = "Write" /\ ops[c].pc \in {"body", "unlock"}}

\* every line of the batch in order, each followed by one newline
RECURSIVE LinesOf(_)
LinesOf(batch) ==
    IF batch = <<>> THEN <<>>
    ELSE LinesOf(SubSeq(batch, 1, Len(batch) - 1))
         \o Append(Bytes(batch[Len(batch)]), NL)

\* C26: when Write(batch) of a file output returns nil, the file holds what
\* it held before the call followed by every line of the batch in order,
\* each followed by one newline, and the buffer holds nothing; and no byte
\* the file held before NewOutput made the output is left in it.
C26_WriteAppendsAndFlushes ==
    sinkKind = "file" =>
        /\ \A c \in Writing :
              (ops[c].pc = "unlock" /\ ops[c].ret = "nil") =>
                  /\ disk = ops[c].before \o LinesOf(ops[c].batch)
                  /\ buf = <<>>
        /\ made => \A k \in DOMAIN disk : disk[k] # Old

\* a Write of two lines has returned nil for a file that held lines already
C26_Witness ==
    /\ sinkKind = "file"
    /\ \E c \in Writing :
          /\ ops[c].pc = "unlock"
          /\ ops[c].ret = "nil"
          /\ Len(ops[c].batch) = 2
          /\ ops[c].before # <<>>

\* the line plus its newline cut to at most 1472 bytes: a line of at most
\* 1471 bytes whole with its newline, a longer one as the first 1472 bytes
Cut(msg) == [id |-> msg.id, n |-> IF msg.len <= 1471 THEN msg.len + 1 ELSE 1472]

\* C27: Write of a UDP output has sent, after what was sent before the call,
\* one datagram for each line of the batch it has gone through, in batch
\* order, each the line plus its newline cut to at most 1472 bytes; when it
\* returns nil it has gone through every line of the batch.
C27_OneBoundedDatagramPerLine ==
    sinkKind = "udp" =>
        /\ \A c \in Writing :
              /\ sent = ops[c].before
                          \o [k \in 1..(ops[c].i - 1) |-> Cut(ops[c].batch[k])]
              /\ ops[c].ret = "nil" => ops[c].i - 1 = Len(ops[c].batch)
        /\ \A k \in DOMAIN sent : sent[k].n <= 1472

\* a Write has returned nil for a line of 1471 bytes and a line of 1472
C27_Witness ==
    /\ sinkKind = "udp"
    /\ \E c \in Writing :
          /\ ops[c].pc = "unlock"
          /\ ops[c].ret = "nil"
          /\ \E k \in DOMAIN ops[c].batch : ops[c].batch[k].len = 1471
          /\ \E k \in DOMAIN ops[c].batch : ops[c].batch[k].len = 1472

\* the calls of Write and Close of the Output between Lock and Unlock
Inside == {c \in DOMAIN ops : ops[c].pc \in {"body", "close", "unlock"}}

\* C28: at most one call of Write or Close of one Output is between its
\* Lock and its Unlock, and while a Write is there the Output has taken,
\* after what it held when the Write began, lines of that batch only.
C28_OperationsSerialized ==
    /\ Cardinality(Inside) <= 1
    /\ \A c \in Writing :
          ops[c].ret # "err" =>
              LET done == SubSeq(ops[c].batch, 1, ops[c].i - 1)
              IN  IF sinkKind = "file"
                  THEN disk \o buf = ops[c].before \o ops[c].kept \o LinesOf(done)
                  ELSE sent = ops[c].before \o [k \in DOMAIN done |-> Datagram(done[k])]

\* a Write has handed over a line while another call waits for the mutex
C28_Witness ==
    \E c \in Writing, d \in DOMAIN ops :
        /\ ops[c].pc = "body"
        /\ ops[c].i > 1
        /\ ops[d].pc = "lock"

\* the step of goroutine g that runs the body of case <-ticker.C
TickStep(g) ==
    /\ g \in DOMAIN gor
    /\ gor[g].pc = "tick"
    /\ gor'[g].pc # "tick"

\* the step of goroutine g has handed its batch to Write and emptied it
Flushed(g) ==
    /\ gor'[g].batch = <<>>
    /\ gor'[g].issued = gor[g].count
    /\ \/ sink'[gor[g].w] = sink[gor[g].w] \o gor[g].batch
       \/ writeErrSeen'

\* C33 as stated: on a tick a worker holding a batch that is not empty writes
\* it to its Output and empties it, whatever its length.
C33_TickFlushesAnyBatch ==
    [][\A g \in Goroutines :
          (TickStep(g) /\ Len(gor[g].batch) > 0) => Flushed(g)]_vars

\* C33 as amended: on a tick a worker holding a batch of at least batchSize
\* lines writes it to its Output and empties it; a shorter batch that is not
\* empty is kept and nothing is written.
C33_TickFlushesFullBatch ==
    [][\A g \in Goroutines :
          (TickStep(g) /\ Len(gor[g].batch) > 0) =>
              IF Len(gor[g].batch) >= workers[gor[g].w].batchSize
              THEN Flushed(g)
              ELSE /\ gor'[g].batch = gor[g].batch
                   /\ sink' = sink]_vars

\* a tick has written the two lines of a full batch, after which the worker
\* took a tick with its third line in the batch
C33_Witness ==
    \E g \in DOMAIN gor :
        /\ gor[g].pc = "tick"
        /\ ~stopClosed
        /\ workers[gor[g].w].batchSize = 2
        /\ Len(gor[g].batch) = 1
        /\ gor[g].issued = 2
        /\ Len(sink[gor[g].w]) = 2

\* C34: when Validate() has returned nil every output of the config has
\* Workers >= 1 and BatchSize >= 1.
C34_ValidateAppliesDefaults ==
    (val.pc = "ret" /\ ~val.err) =>
        \A k \in DOMAIN outputs : outputs[k].Workers >= 1 /\ outputs[k].BatchSize >= 1

\* C35: a call of Stop() made after a first Stop() has returned raises no
\* fault: no close of the closed stopChan happens once a Stop() has returned.
C35_StopIdempotent ==
    Returned("Stop") => panic # "close of closed channel: stopChan"

\* C36: when NewGenerator has returned an error, every Output it had made
\* for earlier worker slots has been closed.
C36_FailedConstructionClosesSinks ==
    (ctor.pc = "ret" /\ ctor.err) => \A w \in DOMAIN workers : closed[w]

\* C37: with a max count, once Stop() has raised the stop signal after
\* Start(), every worker terminates and doneChan is closed all the same,
\* whether the workers had reached their limits or not.
C37_EarlyStopStillCompletes ==
    (maxCount > 0 /\ stopClosed) ~> (doneClosed /\ AllLaunched /\ AllExited)

\* Stop() has returned with doneChan still open and a worker below its limit
C37_Witness ==
    /\ maxCount > 0
    /\ Returned("Stop")
    /\ ~doneClosed
    /\ AllExited
    /\ \E g \in DOMAIN gor : gor[g].count < Limit(g)

\* the lines the Outputs of the workers w..Len(workers) of output k have
\* received
RECURSIVE LinesOfOutput(_, _)
LinesOfOutput(k, w) ==
    IF w > Len(workers) THEN 0
    ELSE (IF workers[w].output = k THEN Len(sink[w]) ELSE 0) + LinesOfOutput(k, w + 1)

RECURSIVE LinesFrom(_)
LinesFrom(w) == IF w > Len(sink) THEN 0 ELSE Len(sink[w]) + LinesFrom(w + 1)

\* W * ceil(N / W)
Share(N, W) == W * ((N + W - 1) \div W)

RECURSIVE SumShares(_)
SumShares(outs) ==
    IF outs = <<>> THEN 0
    ELSE Share(maxCount, outs[1].Workers) + SumShares(Tail(outs))

\* C38: with a max count N > 0, when every worker has run to its end without
\* stop signal and without a failed Write or GenerateLogLine, every output
\* with W workers has received W * ceil(N / W) lines and all outputs
\* together the sum of these amounts.
C38_TargetPerOutput ==
    (maxCount > 0 /\ AllLaunched /\ AllExited /\ ~stopClosed /\ ~writeErrSeen
        /\ ~genErrSeen)
        => /\ \A k \in DOMAIN outputs :
                 LinesOfOutput(k, 1) = Share(maxCount, outputs[k].Workers)
           /\ LinesFrom(1) = SumShares(outputs)

\* a run of two outputs of one worker each has ended with two lines in each
C38_Witness ==
    /\ maxCount = 2
    /\ Len(outputs) = 2
    /\ AllLaunched
    /\ AllExited
    /\ ~writeErrSeen
    /\ ~genErrSeen
    /\ LinesFrom(1) = 4

\* C39: a worker with a limit L > 0 whose every GenerateLogLine call returns
\* an error returns from Start all the same, without a stop signal.
C39_TerminatesUnderFailure ==
    (maxCount > 0 /\ templates = UnknownPlaceholder)
        ~> (stopClosed \/ \E g \in DOMAIN gor : gor[g].pc = "returned")

\* C31: when GenerateLogs(outputFile, count) has returned for templates that
\* all render and no file operation has failed, it has returned nil and
\* outputFile holds exactly count lines, each followed by one newline, and
\* nothing of what it held before.
C31_GenerateLogsWritesCount ==
    (glog.pc = "ret" /\ Len(templates) > 0
        /\ (\A t \in DOMAIN templates : templates[t].renders) /\ ~glog.failed)
        => /\ ~glog.err
           /\ Len(glog.lines) = glog.count
           /\ disk = LinesOf(glog.lines)
           /\ Cardinality({k \in DOMAIN disk : disk[k] = NL}) = glog.count
           /\ \A k \in DOMAIN disk : disk[k] # Old

\* GenerateLogs has returned nil and the file holds its two lines
C31_Witness ==
    /\ glog.pc = "ret"
    /\ ~glog.err
    /\ ~glog.failed
    /\ \A t \in DOMAIN templates : templates[t].renders
    /\ glog.count = 2
    /\ Len(disk) > 2
    /\ released

\* C32: every call of the function installed for a custom type returns one
\* of the strings of the configured list, at an index from 0 to len - 1, and
\* the empty string for an empty list, without a fault; a template
\* referencing the type alone renders to what the function returned.
C32_CustomValueFromList ==
    /\ panic = ""
    /\ \A k \in DOMAIN custom.out :
          IF Len(custom.values) = 0
          THEN custom.out[k].value = ""
          ELSE /\ custom.out[k].index \in 0..(Len(custom.values) - 1)
               /\ \E j \in DOMAIN custom.values : custom.out[k].value = custom.values[j]

\* the function of a list of two strings has returned its last string to a
\* template
C32_Witness ==
    /\ Len(custom.values) = 2
    /\ \E k \in DOMAIN custom.out :
          /\ custom.out[k].rendered
          /\ custom.out[k].index = 1
          /\ custom.out[k].value = custom.values[2]

====
